---- MODULE Spec2Model ----
(***************************************************************************)
(* Model of the Circle-of-Willis model generators (scripts V6, V7, V8,     *)
(* V11, V12, V20) and of the model validators (validate_model.py,          *)
(* check_data_errors.py).                                                  *)
(*                                                                         *)
(* Identifiers (node names, circuit names, vessel names) are modelled as   *)
(* sequences of one-character strings, so that f-string formatting,        *)
(* substring search, lower() and the lexicographic order of sorted() are   *)
(* computed rather than assumed.  A csv file is a sequence of rows; a row  *)
(* is [type |-> first field, f |-> the remaining fields].                  *)
(***************************************************************************)
EXTENDS Integers, Sequences, FiniteSets, TLC

VARIABLES
    gen,        \* which generator script this output directory belongs to
    feat,       \* feature_data of the last run, flattened in iteration order
    lmk,        \* nodes_data of the last run (V12 landmark lookup)
    refHeart,   \* does ../models/Abel_ref2/heart_kim_lit.csv exist
    dir,        \* the generator's OUTPUT_DIR
    run,        \* what the last run of the script did
    runs,       \* number of runs of the script so far
    variant,    \* variant_data of the last run (V20)
    prevDir,    \* the output directory as the run before the last one left it
    report,     \* what the last validator run printed, or the exception it died of
    base        \* the reference model directory ../models/Abel_ref2 (V23)


-----------------------------------------------------------------------------
(* Bounds of the model *)

MaxVessels == 2
MaxRuns == 2

-----------------------------------------------------------------------------
(* Strings *)

UpperChars == <<"A","B","C","D","E","F","G","H","I","J","K","L","M",
                "N","O","P","Q","R","S","T","U","V","W","X","Y","Z">>
LowerChars == <<"a","b","c","d","e","f","g","h","i","j","k","l","m",
                "n","o","p","q","r","s","t","u","v","w","x","y","z">>
DigitChars == <<"0","1","2","3","4","5","6","7","8","9">>

\* Characters in code-point order (the subset of ASCII the model uses).
CodeTable == <<" ", "-">> \o DigitChars \o UpperChars \o <<"_">> \o LowerChars

CodePoint(c) == CHOOSE i \in 1..Len(CodeTable) : CodeTable[i] = c

\* str.lower() on one character
LowerChar(c) ==
    IF \E i \in 1..Len(UpperChars) : UpperChars[i] = c
    THEN LowerChars[CHOOSE i \in 1..Len(UpperChars) : UpperChars[i] = c]
    ELSE c

\* str.lower()
Lower(s) == [i \in 1..Len(s) |-> LowerChar(s[i])]

\* w in s  (substring test)
Contains(w, s) ==
    \E i \in 0..(Len(s) - Len(w)) : SubSeq(s, i + 1, i + Len(w)) = w

\* a < b on str: lexicographic by code point, a proper prefix is smaller
StrLess(a, b) ==
    \E k \in 1..(Len(a) + 1) :
        /\ \A j \in 1..(k - 1) : j <= Len(b) /\ a[j] = b[j]
        /\ \/ k = Len(a) + 1 /\ Len(b) >= k
           \/ k <= Len(a) /\ k <= Len(b) /\ CodePoint(a[k]) < CodePoint(b[k])

\* sorted() of a collection of distinct strings
RECURSIVE Sorted(_)
Sorted(S) ==
    IF S = {} THEN <<>>
    ELSE LET m == CHOOSE x \in S : \A y \in S \ {x} : StrLess(x, y)
         IN  <<m>> \o Sorted(S \ {m})

\* str(n) for a natural number
RECURSIVE Digits(_)
Digits(n) ==
    IF n < 10 THEN <<DigitChars[n + 1]>>
    ELSE Digits(n \div 10) \o <<DigitChars[(n % 10) + 1]>>

\* f"N{id}"
NodeName(id) == <<"N">> \o Digits(id)

\* faulty variant: the circuits are numbered from 0
PidFromZero(i) == <<"p">> \o Digits(i - 1)

\* f"p{i+1}" over enumerate(outlet_nodes): the i-th outlet, counted from 1
Pid(i) == <<"p">> \o Digits(i)

Range(s) == {s[i] : i \in 1..Len(s)}

\* str.strip(): the text without its leading and trailing blanks
RECURSIVE LStrip(_)
LStrip(text) == IF text # <<>> /\ Head(text) = " " THEN LStrip(Tail(text)) ELSE text
RECURSIVE RStrip(_)
RStrip(text) ==
    IF text # <<>> /\ text[Len(text)] = " " THEN RStrip(SubSeq(text, 1, Len(text) - 1)) ELSE text
Strip(text) == RStrip(LStrip(text))


-----------------------------------------------------------------------------
(* Feature data and the 1D vessel list                                     *)
(*                                                                         *)
(* A segment record of feature_data is [group, name, start, end, radius,  *)
(* length]: group and name are the two dictionary keys it sits under,      *)
(* start and end are seg['segment']['start'/'end'], radius is              *)
(* seg['radius']['mean'] and length is seg['length'], both in micrometres. *)
(* Diameters and lengths of the model are in micrometres, wall thicknesses *)
(* in tenths of a micrometre.                                              *)

BIFURCATION == <<"b","i","f","u","r","c","a","t","i","o","n">>

\* wall_thickness(radius_m) = 0.1 * radius_m, in tenths of a micrometre
wall_thickness(radius) == radius

\* one dictionary appended to `arteries` by the feature loop
ArteryOf(seg) ==
    [ ID              |-> seg.name \o <<"_">> \o seg.group,
      name            |-> seg.name,
      start_node      |-> NodeName(seg.start),
      end_node        |-> NodeName(seg.end),
      start_diameter  |-> 2 * seg.radius,
      end_diameter    |-> 2 * seg.radius,
      start_thickness |-> wall_thickness(seg.radius),
      end_thickness   |-> wall_thickness(seg.radius),
      length          |-> seg.length,
      division_points |-> 5 ]

\* the feature loop: every segment of every vessel that is no bifurcation entry
RECURSIVE BuildArteries(_)
BuildArteries(segs) ==
    IF segs = <<>> THEN <<>>
    ELSE IF Contains(BIFURCATION, Lower(Head(segs).name))
         THEN BuildArteries(Tail(segs))
         ELSE <<ArteryOf(Head(segs))>> \o BuildArteries(Tail(segs))

\* sorted({a["start_node"]} | {a["end_node"]})
UniqueNodes1d(arteries) ==
    Sorted({arteries[i].start_node : i \in 1..Len(arteries)} \cup
           {arteries[i].end_node : i \in 1..Len(arteries)})

-----------------------------------------------------------------------------
(* Degree counting and terminal nodes *)

\* degree.get(n, 0)
DictGet(d, k, default) == IF k \in DOMAIN d THEN d[k] ELSE default

\* d[k] = v
DictPut(d, k, v) == [x \in (DOMAIN d) \cup {k} |-> IF x = k THEN v ELSE d[x]]

\* faulty variant: only the start node of a vessel is counted
DegreeStepStartOnly(degree, art) ==
    DictPut(degree, art.start_node, DictGet(degree, art.start_node, 0) + 1)

\* one pass of the degree loop body
DegreeStep(degree, art) ==
    LET d1 == DictPut(degree, art.start_node,
                      DictGet(degree, art.start_node, 0) + 1)
    IN  DictPut(d1, art.end_node, DictGet(d1, art.end_node, 0) + 1)

\* the dictionary `degree` after the loop over the first k arteries
RECURSIVE DegreeLoop(_, _)
DegreeLoop(arteries, k) ==
    IF k = 0 THEN <<>>
    ELSE DegreeStep(DegreeLoop(arteries, k - 1), arteries[k])

Degree(arteries) == DegreeLoop(arteries, Len(arteries))

\* faulty variant: the terminal nodes are left in the order the arteries name them
TerminalsInListOrder(arteries) ==
    LET degree == Degree(arteries)
        ends == [k \in 1..(2 * Len(arteries)) |->
                    IF k % 2 = 1 THEN arteries[(k + 1) \div 2].start_node
                    ELSE arteries[k \div 2].end_node]
    IN  SelectSeq(ends, LAMBDA n : degree[n] = 1)

\* sorted([n for n, d in degree.items() if d == 1])
TerminalNodes(arteries) ==
    LET degree == Degree(arteries)
    IN  Sorted({n \in DOMAIN degree : degree[n] = 1})

\* faulty variant: the inlet is not removed from the terminal list
OutletNodesKeepInlet(terminal_nodes, inlet) == terminal_nodes

\* [n for n in terminal_nodes if n != inlet]
OutletNodes(terminal_nodes, inlet) ==
    SelectSeq(terminal_nodes, LAMBDA n : n # inlet)

-----------------------------------------------------------------------------
(* V11: automatic inlet selection *)

extracranial_keywords == << <<"c","c","a">>, <<"c","o","m","m","o","n">>, <<"e","x","t","r","a","c","r","a","n","i","a","l">>, <<"c","a","r","o","t","i","d">> >>
ica_keywords == << <<"i","c","a">> >>
vertebral_keywords == << <<"v","a">>, <<"v","e","r","t","e","b","r","a","l">> >>

\* detect_inlet_node returned None (printed as "None", never a node name)
NoneNode == <<>>

name_contains(vessel, words) ==
    \E i \in 1..Len(words) : Contains(Lower(words[i]), Lower(vessel.name))

\* index of the first artery a keyword loop returns on, 0 if the loop falls through
FirstMatch(arteries, words) ==
    IF \E i \in 1..Len(arteries) : name_contains(arteries[i], words)
    THEN CHOOSE i \in 1..Len(arteries) :
            /\ name_contains(arteries[i], words)
            /\ \A j \in 1..(i - 1) : ~name_contains(arteries[j], words)
    ELSE 0

\* the fallback loop: best / best_d after the first k arteries
RECURSIVE LargestLoop(_, _)
LargestLoop(arteries, k) ==
    IF k = 0 THEN [best |-> NoneNode, best_d |-> -1]
    ELSE LET prev == LargestLoop(arteries, k - 1)
             d == arteries[k].start_diameter
         IN  IF d > prev.best_d
             THEN [best |-> arteries[k].start_node, best_d |-> d]
             ELSE prev

\* faulty variant: a policy that looks for the internal carotid before the common carotid
DetectIcaFirst(arteries) ==
    LET i1 == FirstMatch(arteries, ica_keywords)
        i2 == FirstMatch(arteries, extracranial_keywords)
    IN  IF i1 # 0 THEN arteries[i1].start_node
        ELSE IF i2 # 0 THEN arteries[i2].start_node
        ELSE LargestLoop(arteries, Len(arteries)).best

detect_inlet_node(arteries) ==
    LET i1 == FirstMatch(arteries, extracranial_keywords)
        i2 == FirstMatch(arteries, ica_keywords)
        i3 == FirstMatch(arteries, vertebral_keywords)
    IN  IF i1 # 0 THEN arteries[i1].start_node
        ELSE IF i2 # 0 THEN arteries[i2].start_node
        ELSE IF i3 # 0 THEN arteries[i3].start_node
        ELSE LargestLoop(arteries, Len(arteries)).best


-----------------------------------------------------------------------------
(* Files *)

Row(t, fields) == [type |-> t, f |-> fields]

\* an empty csv line ([] for csv.reader, "\n" in the file)
BlankRow == Row("", <<>>)

File(rows) == [exists |-> TRUE, rows |-> rows]
NoFile == [exists |-> FALSE, rows |-> <<>>]

EmptyDir == [arterial |-> NoFile, main |-> NoFile, circuits |-> <<>>]

\* file names, as recorded in the order a run writes them
ARTERIAL_CSV == <<"a","r","t","e","r","i","a","l">>
MAIN_CSV == <<"m","a","i","n">>
HEART == <<"h","e","a","r","t","_","k","i","m","_","l","i","t">>

\* local node names of the lumped models
N1 == <<"n","1">>
P1 == <<"P","1">>
GROUND == <<"g">>
AORTA == <<"a","o","r","t","a">>
HEART_NODE == <<"H","e","a","r","t">>

arterial_header ==
    Row("type", <<"ID", "name", "start_node", "end_node",
                  "start_diameter[SI]", "end_diameter[SI]",
                  "start_thickness[SI]", "end_thickness[SI]",
                  "length[SI]", "division_points",
                  "elastance_1[SI]", "res_start[SI]", "res_end[SI]",
                  "visc_fact[1]", "k1[SI]", "k2[SI]", "k3[SI]">>)

\* default_material(), as csv.DictWriter prints the floats
default_material == <<"500000.0", "0.0", "0.0", "2.75", "2000000.0", "-2253.0", "86500.0">>

\* writer.writerow(row) of one artery dictionary
ArteryRow(a) ==
    Row("vis_f", <<a.ID, a.name, a.start_node, a.end_node,
                   a.start_diameter, a.end_diameter,
                   a.start_thickness, a.end_thickness,
                   a.length, a.division_points>> \o default_material)

meta_header == Row("type", <<"ID", "name", "valami", "parameter", "file name">>)

NodeMetaRow(n) == Row("node", <<n, "0", "", "">>)
PerifRow(pid) == Row("perif", <<pid, "0", "", "">>)
HeartMetaRow(id) == Row("heart", <<id, "0", "", "">>)

\* perif rows p1..pK, one per outlet
PerifRows(outlet_nodes) == [i \in 1..Len(outlet_nodes) |-> PerifRow(Pid(i))]

\* header, artery rows, blank line, then the node/perif meta-table
ArterialFile(arteries, meta) ==
    File(<<arterial_header>> \o [i \in 1..Len(arteries) |-> ArteryRow(arteries[i])]
         \o <<BlankRow, meta_header>> \o meta)

\* the run parameters every main.csv starts with
main_prologue ==
    << Row("run", <<"forward">>), Row("time", <<"10">>),
       Row("material", <<"linear">>), Row("solver", <<"maccormack">>),
       BlankRow, Row("type", <<"name", "main node", "model node">>) >>

\* moc_row.extend([a, b]) for every pair
RECURSIVE Flatten(_)
Flatten(pairs) ==
    IF pairs = <<>> THEN <<>> ELSE Head(pairs) \o Flatten(Tail(pairs))

MocRow(pairs) == Row("moc", <<"arterial">> \o Flatten(pairs))
LumpedRow(model, main_node, model_node) == Row("lumped", <<model, main_node, model_node>>)
NodeRow(n) == Row("node", <<n>>)

\* prologue, moc row, blank, lumped rows, blank, node list
MainFile(moc_pairs, lumped, nodes) ==
    File(main_prologue \o <<MocRow(moc_pairs), BlankRow>> \o lumped \o <<BlankRow>>
         \o [i \in 1..Len(nodes) |-> NodeRow(nodes[i])])

-----------------------------------------------------------------------------
(* Windkessel files of the feature-driven generators (V6 .. V12) *)

MIN_Radius == 250
MIN_Length == 1000
FallbackRadius == 1000
FallbackLength == 20000

Max(a, b) == IF a >= b THEN a ELSE b

\* the artery rows read back from arterial.csv: the lines before the first
\* blank line, the first of them being the header pandas consumes
RECURSIVE UntilBlank(_)
UntilBlank(rows) ==
    IF rows = <<>> \/ Head(rows) = BlankRow THEN <<>>
    ELSE <<Head(rows)>> \o UntilBlank(Tail(rows))

ReadArteryRows(file) == Tail(UntilBlank(file.rows))

\* geo[node]: the (r, Lm) pairs appended for the rows that start or end at node.
\* Diameters written by the feature loop are 2 * radius, so d * 0.5 is exact.
RECURSIVE GeoOf(_, _)
GeoOf(rows, node) ==
    IF rows = <<>> THEN <<>>
    ELSE LET row == Head(rows)
             g == [r |-> Max(row.f[5] \div 2, MIN_Radius), Lm |-> Max(row.f[9], MIN_Length)]
         IN  (IF row.f[3] = node THEN <<g>> ELSE <<>>)
             \o (IF row.f[4] = node THEN <<g>> ELSE <<>>)
             \o GeoOf(Tail(rows), node)

RECURSIVE SumR(_)
SumR(gs) == IF gs = <<>> THEN 0 ELSE Head(gs).r + SumR(Tail(gs))
RECURSIVE SumL(_)
SumL(gs) == IF gs = <<>> THEN 0 ELSE Head(gs).Lm + SumL(Tail(gs))

\* avg_geo(node): the averages are kept as sums over a count
avg_geo(rows, node) ==
    LET gs == GeoOf(rows, node)
    IN  IF gs = <<>> THEN [rsum |-> FallbackRadius, lsum |-> FallbackLength, n |-> 1]
        ELSE [rsum |-> SumR(gs), lsum |-> SumL(gs), n |-> Len(gs)]

\* a Windkessel parameter, named by its formula and the averaged geometry it is
\* evaluated on
WkParam(kind, g) == <<kind, g.rsum, g.lsum, g.n>>

\* the rows of pX.csv: R0 from the interface node to P1, then R2, C1, L1 to ground
WkFileRows(iface, g) ==
        << Row("data of edges", <<>>),
            Row("type", <<"name", "node start", "node end", "initial condition [SI]", "parameter [SI]">>),
            Row("resistor", <<<<"R","0">>, iface, P1, "0.0", WkParam("Rprox", g)>>),
            Row("resistor", <<<<"R","2">>, P1, GROUND, "0.0", WkParam("Rdist", g)>>),
            Row("capacitor", <<<<"C","1">>, P1, GROUND, "0.0", WkParam("C", g)>>),
            Row("inductor", <<<<"L","1">>, P1, GROUND, "0.0", WkParam("L", g)>>),
            BlankRow,
            Row("data of nodes", <<>>),
            Row("type", <<"name", "initial condition [SI]">>),
            Row("node", <<iface, "100000.0">>),
            Row("node", <<P1, "100000.0">>),
            Row("ground", <<GROUND, "100000.0">>) >>

\* faulty variant: the circuit file names its interface node n1 whatever main.csv uses
WkFileAlwaysN1(iface, g) == File(WkFileRows(N1, g))

WkFile(iface, g) == File(WkFileRows(iface, g))

\* the p-file loop: circuits after writing p1..pk, each from the geometry of its
\* outlet read back from arterial.csv; ifaces[i] is the interface node of p_i
RECURSIVE WritePFiles(_, _, _, _, _)
WritePFiles(circuits, rows, outlet_nodes, ifaces, k) ==
    IF k = 0 THEN circuits
    ELSE DictPut(WritePFiles(circuits, rows, outlet_nodes, ifaces, k - 1),
                 Pid(k), WkFile(ifaces[k], avg_geo(rows, outlet_nodes[k])).rows)

\* shutil.copy2 of the reference heart model, when it exists
CopyHeart(circuits, ref) ==
    IF ref THEN DictPut(circuits, HEART, <<Row("heart model", <<>>)>>) ELSE circuits

\* names of the files a completed run wrote, in order
WrittenFiles(first, K, ref) ==
    first \o [i \in 1..K |-> Pid(i)] \o (IF ref THEN <<HEART>> ELSE <<>>)


-----------------------------------------------------------------------------
(* The generator scripts.  Each operator is one whole run of the script on *)
(* output directory d: the statements in source order, an uncaught         *)
(* exception ending the run with what was written before it.               *)

RunResult(d, status, written, degree, nodes, terminal, inlet, outlets) ==
    [ dir |-> d, status |-> status, written |-> written, degree |-> degree,
      unique_nodes_1d |-> nodes, terminal_nodes |-> terminal,
      inlet |-> inlet, outlet_nodes |-> outlets ]

\* faulty variant: the inlet check is missing
InletUnchecked(inlet, nodes) == TRUE

\* HEART_INLET in unique_nodes_1d
InletIsNode(inlet, nodes) == inlet \in Range(nodes)

\* lumped rows of V8/V11/V12: the heart at the inlet, then pX at outlet X, local node n1
LumpedRowsN1(inlet, outlet_nodes) ==
    <<LumpedRow(HEART, inlet, AORTA)>>
    \o [i \in 1..Len(outlet_nodes) |-> LumpedRow(Pid(i), outlet_nodes[i], N1)]

\* V11/V12 from the collected artery list on: node list, inlet check, arterial.csv,
\* main.csv, the Windkessel files and the heart copy
EmitV11(d, arteries, inlet, ref) ==
    LET nodes == UniqueNodes1d(arteries)
        terminal == TerminalNodes(arteries)
        outlets == OutletNodes(terminal, inlet)
        arterial == ArterialFile(arteries,
                        <<HeartMetaRow(HEART)>>
                        \o [i \in 1..Len(nodes) |-> NodeMetaRow(nodes[i])]
                        \o PerifRows(outlets))
        main == MainFile([i \in 1..Len(nodes) |-> <<nodes[i], nodes[i]>>],
                         LumpedRowsN1(inlet, outlets), nodes)
        pfiles == WritePFiles(d.circuits, ReadArteryRows(arterial), outlets,
                              [i \in 1..Len(outlets) |-> N1], Len(outlets))
    IN  IF ~InletIsNode(inlet, nodes)
        THEN RunResult(d, "RuntimeError", <<>>, Degree(arteries), nodes, terminal, inlet, <<>>)
        ELSE RunResult([arterial |-> arterial, main |-> main,
                        circuits |-> CopyHeart(pfiles, ref)],
                       "ok", WrittenFiles(<<ARTERIAL_CSV, MAIN_CSV>>, Len(outlets), ref),
                       Degree(arteries), nodes, terminal, inlet, outlets)

V11Generate(d, segs, ref) ==
    LET arteries == BuildArteries(segs)
    IN  EmitV11(d, arteries, detect_inlet_node(arteries), ref)

-----------------------------------------------------------------------------------------------------------------------------------------------------
(* V6, V7, V8: the inlet is the configured node N15 *)

PREFERRED_INLET == NodeName(15)

\* f"{n}p": the interface node V6 and V7 create for outlet n
InterfaceNode(n) == n \o <<"p">>

\* main.csv of V6/V7: the moc row pairs the inlet with Heart and every outlet with
\* its interface node; pX couples at the interface node on both sides
MainFileV6(nodes, inlet, outlets) ==
    LET interface_nodes == [i \in 1..Len(outlets) |-> InterfaceNode(outlets[i])]
    IN  MainFile(<< <<inlet, HEART_NODE>> >>
                    \o [i \in 1..Len(outlets) |-> <<outlets[i], interface_nodes[i]>>],
                 <<LumpedRow(HEART, HEART_NODE, AORTA)>>
                    \o [i \in 1..Len(outlets) |->
                          LumpedRow(Pid(i), interface_nodes[i], interface_nodes[i])],
                 nodes \o interface_nodes \o <<HEART_NODE>>)

\* V6/V7 after the inlet is chosen: main.csv, the Windkessel files, the heart copy
EmitV6(d, arterial, degree, nodes, terminal, inlet, ref) ==
    LET outlets == OutletNodes(terminal, inlet)
        pfiles == WritePFiles(d.circuits, ReadArteryRows(arterial), outlets,
                              [i \in 1..Len(outlets) |-> InterfaceNode(outlets[i])],
                              Len(outlets))
    IN  RunResult([arterial |-> arterial, main |-> MainFileV6(nodes, inlet, outlets),
                   circuits |-> CopyHeart(pfiles, ref)],
                  "ok", WrittenFiles(<<ARTERIAL_CSV, MAIN_CSV>>, Len(outlets), ref),
                  degree, nodes, terminal, inlet, outlets)

\* arterial.csv of V6/V7: the meta-table holds the 1D nodes only
ArterialFileV6(arteries) ==
    LET nodes == UniqueNodes1d(arteries)
    IN  ArterialFile(arteries, [i \in 1..Len(nodes) |-> NodeMetaRow(nodes[i])])

V6Generate(d, segs, ref) ==
    LET arteries == BuildArteries(segs)
        arterial == ArterialFileV6(arteries)
        nodes == UniqueNodes1d(arteries)
        terminal == TerminalNodes(arteries)
        written == [d EXCEPT !.arterial = arterial]
    IN  IF PREFERRED_INLET \in Range(nodes)
        THEN EmitV6(d, arterial, Degree(arteries), nodes, terminal, PREFERRED_INLET, ref)
        ELSE IF terminal = <<>>
        THEN RunResult(written, "RuntimeError", <<ARTERIAL_CSV>>, Degree(arteries), nodes, terminal,
                       NoneNode, <<>>)
        ELSE EmitV6(d, arterial, Degree(arteries), nodes, terminal, terminal[1], ref)

V7Generate(d, segs, ref) ==
    LET arteries == BuildArteries(segs)
        arterial == ArterialFileV6(arteries)
        nodes == UniqueNodes1d(arteries)
        terminal == TerminalNodes(arteries)
        written == [d EXCEPT !.arterial = arterial]
    IN  IF PREFERRED_INLET \notin Range(terminal)
        THEN RunResult(written, "RuntimeError", <<ARTERIAL_CSV>>, Degree(arteries), nodes, terminal,
                       PREFERRED_INLET, <<>>)
        ELSE EmitV6(d, arterial, Degree(arteries), nodes, terminal, PREFERRED_INLET, ref)

HEART_H == <<"H">>

\* V8: arterial.csv with node rows and the heart row, the perif rows appended once
\* the outlets are known; N15 is used as inlet whether or not it is a node
V8Generate(d, segs, ref) ==
    LET arteries == BuildArteries(segs)
        nodes == UniqueNodes1d(arteries)
        terminal == TerminalNodes(arteries)
        degree == Degree(arteries)
        outlets == OutletNodes(terminal, PREFERRED_INLET)
        first == ArterialFile(arteries,
                     [i \in 1..Len(nodes) |-> NodeMetaRow(nodes[i])]
                     \o <<HeartMetaRow(HEART_H)>>)
        arterial == File(first.rows \o PerifRows(outlets))
        main == MainFile(<< <<PREFERRED_INLET, HEART_H>> >>
                            \o [i \in 1..Len(outlets) |-> <<outlets[i], Pid(i)>>],
                         LumpedRowsN1(PREFERRED_INLET, outlets), nodes)
        pfiles == WritePFiles(d.circuits, ReadArteryRows(arterial), outlets,
                              [i \in 1..Len(outlets) |-> N1], Len(outlets))
    IN  RunResult([arterial |-> arterial, main |-> main,
                   circuits |-> CopyHeart(pfiles, ref)],
                  "ok", WrittenFiles(<<ARTERIAL_CSV, MAIN_CSV>>, Len(outlets), ref),
                  degree, nodes, terminal, PREFERRED_INLET, outlets)

-----------------------------------------------------------------------------
(* V12: connector segments between anatomical landmark nodes *)

CONNECTOR_LENGTH == 1000
HEART_INLET_NODE_ID == 15

\* feature_data[group][vessel] exists: some segment record sits under the two keys
HasFeature(segs, group, vessel) ==
    \E i \in 1..Len(segs) : segs[i].group = group /\ segs[i].name = vessel

\* mean_radius_from_feature: the radius of the first record under the two keys
mean_radius_from_feature(segs, group, vessel) ==
    segs[CHOOSE i \in 1..Len(segs) :
            /\ segs[i].group = group /\ segs[i].name = vessel
            /\ \A j \in 1..(i - 1) : ~(segs[j].group = group /\ segs[j].name = vessel)].radius

\* the connectors in source order: ID, name, the two landmark keys of
\* nodes_data (group/label) and the feature (group, vessel) lending its radius
Connectors ==
    << [ID |-> <<"B","A","_","t","o","_","R","P","C","A">>, name |-> <<"B","A","_","c","o","n","n">>, from |-> "1/BA bifurcation",
        to |-> "1/R-PCA boundary", group |-> <<"1">>, vessel |-> <<"B","A">>],
       [ID |-> <<"B","A","_","t","o","_","L","P","C","A">>, name |-> <<"B","A","_","c","o","n","n">>, from |-> "1/BA bifurcation",
        to |-> "1/L-PCA boundary", group |-> <<"1">>, vessel |-> <<"B","A">>],
       [ID |-> <<"P","1","R","_","t","o","_","P","c","o","m">>, name |-> <<"P","c","o","m","_","c","o","n","n">>, from |-> "2/Pcom bifurcation",
        to |-> "8/PCA boundary", group |-> <<"2">>, vessel |-> <<"P","1">>],
       [ID |-> <<"P","1","L","_","t","o","_","P","c","o","m">>, name |-> <<"P","c","o","m","_","c","o","n","n">>, from |-> "3/Pcom bifurcation",
        to |-> "9/PCA boundary", group |-> <<"3">>, vessel |-> <<"P","1">>],
       [ID |-> <<"P","c","o","m","R","_","t","o","_","I","C","A">>, name |-> <<"P","c","o","m","_","c","o","n","n">>, from |-> "8/PCA boundary",
        to |-> "4/Pcom bifurcation", group |-> <<"8">>, vessel |-> <<"P","c","o","m">>],
       [ID |-> <<"P","c","o","m","L","_","t","o","_","I","C","A">>, name |-> <<"P","c","o","m","_","c","o","n","n">>, from |-> "9/PCA boundary",
        to |-> "6/Pcom bifurcation", group |-> <<"9">>, vessel |-> <<"P","c","o","m">>],
       [ID |-> <<"I","C","A","_","R","_","t","o","_","M","C","A">>, name |-> <<"I","C","A","_","M","C","A","_","c","o","n","n">>, from |-> "4/ICA bifurcation",
        to |-> "4/MCA boundary", group |-> <<"5">>, vessel |-> <<"M","C","A">>],
       [ID |-> <<"I","C","A","_","L","_","t","o","_","M","C","A">>, name |-> <<"I","C","A","_","M","C","A","_","c","o","n","n">>, from |-> "6/ICA bifurcation",
        to |-> "6/MCA boundary", group |-> <<"7">>, vessel |-> <<"M","C","A">>],
       [ID |-> <<"I","C","A","_","R","_","t","o","_","A","1">>, name |-> <<"I","C","A","_","A","1","_","c","o","n","n">>, from |-> "4/ICA bifurcation",
        to |-> "4/ACA boundary", group |-> <<"1","1">>, vessel |-> <<"A","1">>],
       [ID |-> <<"I","C","A","_","L","_","t","o","_","A","1">>, name |-> <<"I","C","A","_","A","1","_","c","o","n","n">>, from |-> "6/ICA bifurcation",
        to |-> "6/ACA boundary", group |-> <<"1","2">>, vessel |-> <<"A","1">>] >>

\* every label get_node_id is called with, the two ICA boundaries included
LandmarkKeys ==
    { "1/BA bifurcation", "1/R-PCA boundary", "1/L-PCA boundary",
      "2/Pcom bifurcation", "3/Pcom bifurcation", "8/PCA boundary", "9/PCA boundary",
      "4/Pcom bifurcation", "6/Pcom bifurcation", "8/ICA boundary", "9/ICA boundary",
      "4/ICA bifurcation", "6/ICA bifurcation", "4/MCA boundary", "6/MCA boundary",
      "4/ACA boundary", "6/ACA boundary" }

\* add_connector_segment
add_connector_segment(segs, marks, c) ==
    LET radius == mean_radius_from_feature(segs, c.group, c.vessel)
    IN  [ ID              |-> c.ID,
          name            |-> c.name,
          start_node      |-> NodeName(marks[c.from]),
          end_node        |-> NodeName(marks[c.to]),
          start_diameter  |-> 2 * radius,
          end_diameter    |-> 2 * radius,
          start_thickness |-> wall_thickness(radius),
          end_thickness   |-> wall_thickness(radius),
          length          |-> CONNECTOR_LENGTH,
          division_points |-> 1 ]

\* a get_node_id or mean_radius_from_feature lookup fails
V12KeyError(segs, marks) ==
    \/ ~(LandmarkKeys \subseteq DOMAIN marks)
    \/ \E i \in 1..Len(Connectors) : ~HasFeature(segs, Connectors[i].group, Connectors[i].vessel)

V12Arteries(segs, marks) ==
    BuildArteries(segs)
    \o [i \in 1..Len(Connectors) |-> add_connector_segment(segs, marks, Connectors[i])]

V12Generate(d, segs, marks, ref) ==
    IF V12KeyError(segs, marks)
    THEN RunResult(d, "KeyError", <<>>, <<>>, <<>>, <<>>, NodeName(HEART_INLET_NODE_ID), <<>>)
    ELSE EmitV11(d, V12Arteries(segs, marks), NodeName(HEART_INLET_NODE_ID), ref)

-----------------------------------------------------------------------------
(* The vessel graph *)

\* nodes joined to node n by vessels
RECURSIVE Reach(_, _)
Reach(arteries, seen) ==
    LET more == seen \cup
                {arteries[i].end_node : i \in {j \in 1..Len(arteries) : arteries[j].start_node \in seen}}
                \cup
                {arteries[i].start_node : i \in {j \in 1..Len(arteries) : arteries[j].end_node \in seen}}
    IN  IF more = seen THEN seen ELSE Reach(arteries, more)

\* the connected components of the vessel graph, as node sets
Components(arteries) ==
    LET nodes == {arteries[i].start_node : i \in 1..Len(arteries)} \cup
                 {arteries[i].end_node : i \in 1..Len(arteries)}
    IN  {Reach(arteries, {n}) : n \in nodes}

-----------------------------------------------------------------------------
(* Inputs *)

\* a segment record; radius and length (micrometres) differ from vessel to vessel
Seg(group, name, start, end) ==
    [group |-> group, name |-> name, start |-> start, end |-> end,
     radius |-> 1000 + 50 * end, length |-> 5000 + 100 * start]

NodeIds == {2, 10, 15}

\* vessels of the small networks, and one bifurcation meta-entry
Segments ==
    { Seg(<<"4">>, name, s, e) : name \in {<<"I","C","A">>, <<"B","A">>}, s \in NodeIds, e \in NodeIds }
    \cup { Seg(<<"4">>, <<"I","C","A"," ","b","i","f","u","r","c","a","t","i","o","n">>, 2, 10) }

SeqsUpTo(S, n) == UNION { [1..k -> S] : k \in 0..n }

\* a flattened dictionary of dictionaries: the records under one (group, name)
\* key are adjacent
FromDict(segs) ==
    \A i, j \in 1..Len(segs) :
        (i < j /\ segs[i].group = segs[j].group /\ segs[i].name = segs[j].name)
        => \A k \in i..j : segs[k].group = segs[i].group /\ segs[k].name = segs[i].name

FeatureLists == { segs \in SeqsUpTo(Segments, MaxVessels) : FromDict(segs) }

NoLandmarks == <<>>

\* V12: a patient with the nine segments the connectors borrow their radius from
V12Base(baStart) ==
    << Seg(<<"1">>, <<"B","A">>, baStart, 1),
       Seg(<<"2">>, <<"P","1">>, 2, 3), Seg(<<"3">>, <<"P","1">>, 4, 5),
       Seg(<<"8">>, <<"P","c","o","m">>, 6, 7), Seg(<<"9">>, <<"P","c","o","m">>, 8, 9),
       Seg(<<"5">>, <<"M","C","A">>, 20, 21), Seg(<<"7">>, <<"M","C","A">>, 22, 23),
       Seg(<<"1","1">>, <<"A","1">>, 24, 25), Seg(<<"1","2">>, <<"A","1">>, 26, 27) >>

\* segments a patient may have besides: the two carotid trunks and the Acom
V12Optional ==
    << Seg(<<"4">>, <<"I","C","A">>, 10, 12), Seg(<<"6">>, <<"I","C","A">>, 11, 13),
       Seg(<<"1","0">>, <<"A","c","o","m">>, 25, 27) >>

V12Landmarks(baBif) ==
    [k \in LandmarkKeys |->
        CASE k = "1/BA bifurcation" -> baBif
          [] k = "1/R-PCA boundary" -> 2
          [] k = "1/L-PCA boundary" -> 4
          [] k = "2/Pcom bifurcation" -> 3
          [] k = "3/Pcom bifurcation" -> 5
          [] k = "8/PCA boundary" -> 6
          [] k = "9/PCA boundary" -> 8
          [] k = "4/Pcom bifurcation" -> 10
          [] k = "6/Pcom bifurcation" -> 11
          [] k = "8/ICA boundary" -> 7
          [] k = "9/ICA boundary" -> 9
          [] k = "4/ICA bifurcation" -> 12
          [] k = "6/ICA bifurcation" -> 13
          [] k = "4/MCA boundary" -> 20
          [] k = "6/MCA boundary" -> 22
          [] k = "4/ACA boundary" -> 24
          [] k = "6/ACA boundary" -> 26]

Restrict(f, D) == [x \in D |-> f[x]]

\* sub-sequence of s at the positions in keep
RECURSIVE Pick(_, _, _)
Pick(s, keep, i) ==
    IF i > Len(s) THEN <<>>
    ELSE (IF i \in keep THEN <<s[i]>> ELSE <<>>) \o Pick(s, keep, i + 1)

\* the BA starts at N15 or elsewhere; one of the nine segments may be missing; any
\* of the optional segments may be present
V12FeatureLists ==
    { Pick(V12Base(b), (1..9) \ drop, 1) \o Pick(V12Optional, opt, 1) :
        b \in {15, 16}, drop \in {{}, {1}, {4}}, opt \in SUBSET (1..3) }

\* the BA bifurcation is the far end of the BA or (a one-node BA) N15 itself; a
\* label may be missing from nodes_data
V12LandmarkMaps ==
    { V12Landmarks(1), V12Landmarks(15),
      Restrict(V12Landmarks(1), LandmarkKeys \ {"9/ICA boundary"}) }

-----------------------------------------------------------------------------
(* Specification of one run of a generator into a fresh output directory *)

NoRun == [RunResult(EmptyDir, "none", <<>>, <<>>, <<>>, <<>>, NoneNode, <<>>) EXCEPT !.dir = EmptyDir]

Generators == {"V6", "V7", "V8", "V11", "V12"}

\* no variant file read, no validator run yet
NoVariant == <<>>
NoReport == [outcome |-> "none", exception |-> "", entries |-> {}]

\* no reference model read
NoBase == [exists |-> FALSE, arterial |-> NoFile, main |-> NoFile, circuits |-> <<>>]

InitGen ==
    /\ gen \in Generators
    /\ feat = <<>>
    /\ lmk = NoLandmarks
    /\ refHeart = FALSE
    /\ dir = EmptyDir
    /\ run = NoRun
    /\ runs = 0
    /\ variant = NoVariant
    /\ prevDir = EmptyDir
    /\ report = NoReport
    /\ base = NoBase

\* the state after a run that did r
Finish(r, segs, marks, ref) ==
    /\ feat' = segs
    /\ lmk' = marks
    /\ refHeart' = ref
    /\ dir' = r.dir
    /\ run' = [r EXCEPT !.dir = EmptyDir]
    /\ runs' = runs + 1
    /\ prevDir' = dir
    /\ UNCHANGED <<gen, variant, report, base>>

RunV6 ==
    /\ gen = "V6"
    /\ runs = 0
    /\ \E segs \in FeatureLists, ref \in BOOLEAN :
          Finish(V6Generate(dir, segs, ref), segs, NoLandmarks, ref)

RunV7 ==
    /\ gen = "V7"
    /\ runs = 0
    /\ \E segs \in FeatureLists, ref \in BOOLEAN :
          Finish(V7Generate(dir, segs, ref), segs, NoLandmarks, ref)

RunV8 ==
    /\ gen = "V8"
    /\ runs = 0
    /\ \E segs \in FeatureLists, ref \in BOOLEAN :
          Finish(V8Generate(dir, segs, ref), segs, NoLandmarks, ref)

RunV11 ==
    /\ gen = "V11"
    /\ runs = 0
    /\ \E segs \in FeatureLists, ref \in BOOLEAN :
          Finish(V11Generate(dir, segs, ref), segs, NoLandmarks, ref)

RunV12 ==
    /\ gen = "V12"
    /\ runs = 0
    /\ \E segs \in V12FeatureLists, marks \in V12LandmarkMaps, ref \in BOOLEAN :
          Finish(V12Generate(dir, segs, marks, ref), segs, marks, ref)

NextGen == RunV6 \/ RunV7 \/ RunV8 \/ RunV11 \/ RunV12

vars == <<gen, feat, lmk, refHeart, dir, run, runs, variant, prevDir, report, base>>

Spec == InitGen /\ [][NextGen]_vars


-----------------------------------------------------------------------------
(* Reading the emitted artifacts back, for the properties below *)

RowsOfType(file, t) == SelectSeq(file.rows, LAMBDA row : row.type = t)

\* the vessel rows of arterial.csv
VesselRows == RowsOfType(dir.arterial, "vis_f")

\* the perif identifiers declared in arterial.csv, in file order
PerifIds == [i \in 1..Len(RowsOfType(dir.arterial, "perif")) |->
                RowsOfType(dir.arterial, "perif")[i].f[1]]

\* the lumped rows of main.csv: heart coupling rows and Windkessel coupling rows
HeartRows == SelectSeq(RowsOfType(dir.main, "lumped"), LAMBDA row : row.f[1] = HEART)
WkRows == SelectSeq(RowsOfType(dir.main, "lumped"), LAMBDA row : row.f[1] # HEART)

\* the rows of a circuit file after its "data of nodes" line
RECURSIVE AfterNodesLine(_)
AfterNodesLine(rows) ==
    IF rows = <<>> THEN <<>>
    ELSE IF Head(rows).type = "data of nodes" THEN Tail(rows)
    ELSE AfterNodesLine(Tail(rows))

\* the names a circuit file's node table declares
NodeTable(rows) ==
    {row.f[1] : row \in {r \in Range(AfterNodesLine(rows)) : r.type \in {"node", "ground"}}}

\* the start node of resistor R0 of a circuit file
ProximalStart(rows) ==
    {row.f[2] : row \in {r \in Range(rows) : r.type = "resistor" /\ r.f[1] = <<"R","0">>}}

\* number of vessel endpoints (start or end) of arterial.csv that reference node n
EndpointCount(n) ==
    Cardinality({i \in 1..Len(VesselRows) : VesselRows[i].f[3] = n})
    + Cardinality({i \in 1..Len(VesselRows) : VesselRows[i].f[4] = n})

\* the nodes the vessels of arterial.csv reference
VesselNodes ==
    {VesselRows[i].f[3] : i \in 1..Len(VesselRows)} \cup
    {VesselRows[i].f[4] : i \in 1..Len(VesselRows)}

\* the p-files among the files the last run wrote
WrittenPFiles == {w \in Range(run.written) : Head(w) = "p"}

Completed == run.status = "ok"

-----------------------------------------------------------------------------
(* Properties of one generator run (specification Spec) *)

\* C1: for every Windkessel coupling row lumped,<pid>,<global>,<local> that a run
\* writes to main.csv, the same run writes <pid>.csv, whose node table declares
\* the local node verbatim, and that node is the start node of the proximal
\* resistor R0.
C1_CouplingMatchesCircuit ==
    Completed =>
        \A i \in 1..Len(WkRows) :
            LET pid == WkRows[i].f[1]
                local == WkRows[i].f[3]
            IN  /\ pid \in WrittenPFiles
                /\ pid \in DOMAIN dir.circuits
                /\ local \in NodeTable(dir.circuits[pid])
                /\ ProximalStart(dir.circuits[pid]) = {local}

\* a V7 run whose outlet N10 is coupled at interface node N10p
C1_Witness ==
    /\ Completed
    /\ gen = "V7"
    /\ Len(WkRows) = 1
    /\ WkRows[1].f[3] = <<"N","1","0","p">>

\* C2: in V11 and V12, once generation is past the inlet check, the inlet is a 1D
\* node, and the outlets of the main.csv Windkessel rows and of the circuit files
\* are exactly the degree-1 nodes other than the inlet; when the inlet has degree 2
\* or more it is used anyway and every degree-1 node is an outlet.
C2_InletAndOutlets ==
    (gen \in {"V11", "V12"} /\ Completed) =>
        LET terminals == {n \in VesselNodes : EndpointCount(n) = 1}
            outlets == {WkRows[i].f[2] : i \in 1..Len(WkRows)}
        IN  /\ run.inlet \in VesselNodes
            /\ Len(HeartRows) = 1 /\ HeartRows[1].f[2] = run.inlet
            /\ outlets = terminals \ {run.inlet}
            /\ Range(run.outlet_nodes) = outlets
            /\ Cardinality(WrittenPFiles) = Cardinality(outlets)
            /\ (EndpointCount(run.inlet) >= 2 => outlets = terminals)

\* a V12 run whose inlet N15 has degree 3 and is used anyway
C2_Witness ==
    /\ gen = "V12" /\ Completed
    /\ EndpointCount(run.inlet) >= 2
    /\ Len(WkRows) >= 2

\* the vessel endpoints of the input of the last run: the segments kept by the
\* feature loop and, in V12, the landmark nodes of the connectors
InputEndpoints ==
    {NodeName(feat[i].start) : i \in {j \in 1..Len(feat) : ~Contains(BIFURCATION, Lower(feat[j].name))}}
    \cup {NodeName(feat[i].end) : i \in {j \in 1..Len(feat) : ~Contains(BIFURCATION, Lower(feat[j].name))}}
    \cup (IF gen = "V12"
          THEN {NodeName(lmk[k]) : k \in {Connectors[i].from : i \in 1..Len(Connectors)} \cap DOMAIN lmk}
               \cup {NodeName(lmk[k]) : k \in {Connectors[i].to : i \in 1..Len(Connectors)} \cap DOMAIN lmk}
          ELSE {})

\* C4: in V11 and V12, when the selected inlet (auto-detected, None for an empty
\* vessel list, in V11; N15 in V12) is no endpoint of any vessel, the run aborts
\* with an error and has written no file: the output directory is as before.
C4_AbortBeforeWriting ==
    (gen \in {"V11", "V12"} /\ runs = 1 /\ run.inlet \notin InputEndpoints) =>
        /\ run.status \in {"RuntimeError", "KeyError"}
        /\ run.written = <<>>
        /\ dir = EmptyDir

\* V12 on a patient whose BA starts at N16: N15 is no node, RuntimeError
C4_Witness ==
    /\ gen = "V12" /\ runs = 1
    /\ run.status = "RuntimeError"
    /\ run.inlet \notin InputEndpoints
    /\ Len(feat) >= 9

\* the order of sorted() on the node names of the small networks
LexOrder == << <<"N","1","0">>, <<"N","1","5">>, <<"N","2">> >>
LexIndex(n) == CHOOSE i \in 1..Len(LexOrder) : LexOrder[i] = n

EmittedGraph ==
    [i \in 1..Len(VesselRows) |->
        [start_node |-> VesselRows[i].f[3], end_node |-> VesselRows[i].f[4]]]

\* C6 (as claimed): every model V12 emits has a vessel graph with exactly one
\* connected component; an input the connectors leave split makes the build fail.
C6_SingleComponent ==
    (gen = "V12" /\ Completed) => Cardinality(Components(EmittedGraph)) = 1

\* the circuit identifiers p1, p2, ... as they must appear in the artifacts
PNames == << <<"p","1">>, <<"p","2">>, <<"p","3">>, <<"p","4">> >>

\* the i-th element, in lexicographic order, of a set of node names
IthInLexOrder(S, i) ==
    CHOOSE n \in S : Cardinality({m \in S : LexIndex(m) < LexIndex(n)}) = i - 1

\* the geometry a circuit file was computed from, read off its R0 row
CircuitGeometry(rows) ==
    {<<row.f[5][2], row.f[5][3], row.f[5][4]>> :
        row \in {r \in Range(rows) : r.type = "resistor" /\ r.f[1] = <<"R","0">>}}

\* the geometry (radius, length, count 1) of the single vessel at a degree-1 node
SingleVesselGeometry(n) ==
    {<<Max(VesselRows[i].f[5] \div 2, MIN_Radius), Max(VesselRows[i].f[9], MIN_Length), 1>> :
        i \in {j \in 1..Len(VesselRows) : VesselRows[j].f[3] = n \/ VesselRows[j].f[4] = n}}

\* C9: a V11 run with K outlets writes one heart coupling row and K Windkessel
\* coupling rows to main.csv, K perif rows to arterial.csv and the K files
\* p1..pK; in all three p_i stands for the i-th outlet in lexicographic order, so
\* distinct outlets have distinct circuits.
C9_OneCircuitPerOutlet ==
    (gen = "V11" /\ Completed) =>
        LET outlets == {n \in VesselNodes : EndpointCount(n) = 1} \ {run.inlet}
            K == Cardinality(outlets)
        IN  /\ Len(HeartRows) = 1
            /\ Len(WkRows) = K
            /\ Len(PerifIds) = K
            /\ WrittenPFiles = {PNames[i] : i \in 1..K}
            /\ \A i \in 1..K :
                  /\ WkRows[i].f[1] = PNames[i]
                  /\ WkRows[i].f[2] = IthInLexOrder(outlets, i)
                  /\ PerifIds[i] = PNames[i]
                  /\ CircuitGeometry(dir.circuits[PNames[i]])
                        = SingleVesselGeometry(IthInLexOrder(outlets, i))

\* the path N15 - N2 - N10 with inlet N15: exactly one outlet row, for N10
C9_Witness ==
    /\ gen = "V11" /\ Completed
    /\ run.inlet = <<"N","1","5">>
    /\ EndpointCount(<<"N","2">>) = 2
    /\ Len(WkRows) = 1
    /\ WkRows[1].f[2] = <<"N","1","0">>

\* two outlets, N10 before N2
C9_WitnessTwo ==
    /\ gen = "V11" /\ Completed
    /\ Len(WkRows) = 2
    /\ WkRows[1].f[2] = <<"N","1","0">> /\ WkRows[2].f[2] = <<"N","2">>

-----------------------------------------------------------------------------
(* Specification of detect_inlet_node applied to a list of arteries *)

MaxDetect == 3

\* vessel names of the inlet policy: common carotid, internal carotid,
\* vertebral, and the basilar artery, which no keyword matches
DetectNames == {<<"C","C","A">>, <<"I","C","A">>, <<"V","A">>, <<"B","A">>}

\* start nodes N2 / N10; the diameter follows the end node, so N2-N10 and
\* N10-N10 are equally wide and N10-N15 is wider
DetectSegments ==
    { Seg(<<"4">>, name, se[1], se[2]) :
        name \in DetectNames, se \in {<<2, 10>>, <<10, 10>>, <<10, 15>>} }

InitDetect ==
    /\ gen = "detect"
    /\ feat \in SeqsUpTo(DetectSegments, MaxDetect)
    /\ lmk = NoLandmarks
    /\ refHeart = FALSE
    /\ dir = EmptyDir
    /\ run = NoRun
    /\ runs = 0
    /\ variant = NoVariant
    /\ prevDir = EmptyDir
    /\ report = NoReport
    /\ base = NoBase

\* inlet_node = detect_inlet_node(arteries)
Detect ==
    /\ gen = "detect"
    /\ runs = 0
    /\ run' = [NoRun EXCEPT !.status = "detected",
                            !.inlet = detect_inlet_node(BuildArteries(feat))]
    /\ runs' = 1
    /\ UNCHANGED <<gen, feat, lmk, refHeart, dir, variant, prevDir, report, base>>

SpecDetect == InitDetect /\ [][Detect]_vars

\* the arteries whose lower-cased name holds one of the words, by position
Matching(words) ==
    { i \in 1..Len(feat) :
        \E w \in Range(words) : Contains(Lower(w), Lower(feat[i].name)) }

First(S) == CHOOSE i \in S : \A j \in S : i <= j

StartOf(i) == NodeName(feat[i].start)

CommonCarotid == Matching(extracranial_keywords)
InternalCarotid == Matching(ica_keywords)
Vertebral == Matching(vertebral_keywords)

\* C5: detect_inlet_node returns the start node of the first vessel matching
\* the extracranial/common-carotid pattern if there is one, else of the first
\* vessel matching ICA, else of the first vessel matching vertebral, else of a
\* vessel with the largest start diameter; with a common-carotid and an
\* internal-carotid vessel both in the list, the common-carotid one wins
\* wherever it stands.
C5_OrderedInletPolicy ==
    run.status = "detected" =>
        /\ CommonCarotid # {} => run.inlet = StartOf(First(CommonCarotid))
        /\ (CommonCarotid = {} /\ InternalCarotid # {})
              => run.inlet = StartOf(First(InternalCarotid))
        /\ (CommonCarotid = {} /\ InternalCarotid = {} /\ Vertebral # {})
              => run.inlet = StartOf(First(Vertebral))
        /\ (CommonCarotid = {} /\ InternalCarotid = {} /\ Vertebral = {} /\ feat # <<>>)
              => \E i \in 1..Len(feat) :
                    /\ run.inlet = StartOf(i)
                    /\ \A j \in 1..Len(feat) : feat[j].radius <= feat[i].radius
        /\ (CommonCarotid # {} /\ InternalCarotid # {})
              => \E i \in CommonCarotid : run.inlet = StartOf(i)

\* an internal carotid stands before the common carotid, on another start
\* node, and the common carotid's start node is returned
C5_Witness ==
    /\ run.status = "detected"
    /\ Len(feat) >= 2
    /\ feat[1].name = <<"I","C","A">> /\ feat[1].start = 2
    /\ feat[2].name = <<"C","C","A">> /\ feat[2].start = 10
    /\ run.inlet = <<"N","1","0">>

\* no keyword matches and the second vessel is the widest
C5_WitnessFallback ==
    /\ run.status = "detected"
    /\ Len(feat) = 2
    /\ CommonCarotid = {} /\ InternalCarotid = {} /\ Vertebral = {}
    /\ feat[1].start = 2 /\ feat[2].start = 10
    /\ feat[1].radius < feat[2].radius
    /\ run.inlet = <<"N","1","0">>

-----------------------------------------------------------------------------
(* Specification of repeated V11 runs into the same output directory *)

\* internal-carotid segments only: the inlet is the first one's start node
RerunLists ==
    { segs \in FeatureLists : \A i \in 1..Len(segs) : segs[i].name = <<"I","C","A">> }

InitRerun ==
    /\ InitGen
    /\ gen = "V11"

\* python V11_generate.py, once more, on whatever the directory holds
RerunV11 ==
    /\ gen = "V11"
    /\ runs < MaxRuns
    /\ \E segs \in RerunLists, ref \in BOOLEAN :
          Finish(V11Generate(dir, segs, ref), segs, NoLandmarks, ref)

SpecRerun == InitRerun /\ [][RerunV11]_vars

\* circuit identifiers the lumped rows of the current main.csv refer to
ReferencedCircuits == { r.f[1] : r \in Range(RowsOfType(dir.main, "lumped")) }

\* p*.csv and heart_kim_lit.csv files in the directory
CircuitFiles == DOMAIN dir.circuits

\* C3: after any sequence of V11 runs into one directory the circuit files
\* present are exactly the circuits the lumped rows of main.csv refer to.
C3_FilesMatchReferences ==
    dir.main.exists => CircuitFiles = ReferencedCircuits

\* the two halves of C3, after a completed run
C3_NoMissingFile ==
    (dir.main.exists /\ run.status = "ok") => ReferencedCircuits \subseteq CircuitFiles

C3_NoStaleFile ==
    (dir.main.exists /\ run.status = "ok") => CircuitFiles \subseteq ReferencedCircuits

-----------------------------------------------------------------------------
(* V20: the patient's Circle of Willis attached to the static body model *)

MaxShift == 4

\* STATIC_VESSELS: the 86 vessel rows of the body, diameters and lengths in
\* micrometres, thicknesses in tenths of a micrometre
STATIC_VESSELS ==
    <<
       Row("vis_f", <<<<"A","1">>, "Ascending aorta 1", <<"H">>, <<"n","1">>, 29400, 29300, 29400, 29300, 5000, 5, "2.92E+05","0","0","2.75","2.e6","-2253.","8.65e4">>),
       Row("vis_f", <<<<"A","2">>, "Aortic arch A", <<"n","2">>, <<"n","3">>, 25100, 24000, 25100, 24000, 20000, 5, "3.19E+05","0","0","2.75","2.e6","-2253.","8.65e4">>),
       Row("vis_f", <<<<"A","3">>, "Brachiocephalic", <<"n","2">>, <<"n","6">>, 20200, 18000, 20200, 18000, 34000, 6, "3.62E+05","0","0","2.75","2.e6","-2253.","8.65e4">>),
       Row("vis_f", <<<<"A","4">>, "Subclavian A", <<"n","6">>, <<"n","7">>, 11500, 9000, 11500, 9000, 34000, 5, "5.06E+05","0","0","2.75","2.e6","-2253.","8.65e4">>),
       Row("vis_f", <<<<"A","1","9">>, "Subclavian A", <<"n","4">>, <<"n","1","0">>, 11000, 8500, 11000, 8500, 34000, 8, "5.20E+05","0","0","2.75","2.e6","-2253.","8.65e4">>),
       Row("vis_f", <<<<"A","5">>, "Common carotid", <<"n","6">>, <<"n","3","2">>, 13500, 7000, 13500, 7000, 94000, 19, "5.23E+05","0","0","2.75","2.e6","-2253.","8.65e4">>),
       Row("vis_f", <<<<"A","1","5">>, "Common carotid", <<"n","3">>, <<"n","2","6">>, 12000, 6000, 12000, 6000, 139000, 19, "5.65E+05","0","0","2.75","2.e6","-2253.","8.65e4">>),
       Row("vis_f", <<<<"A","6">>, "Vertebral", <<"n","7">>, <<"n","3","1">>, 3700, 2800, 3700, 2800, 149000, 15, "9.82E+05","0","0","2.75","2.e6","-2253.","8.65e4">>),
       Row("vis_f", <<<<"A","2","0">>, "Vertebral", <<"n","1","0">>, <<"n","3","1">>, 3700, 2800, 3700, 2800, 148000, 18, "9.82E+05","0","0","2.75","2.e6","-2253.","8.65e4">>),
       Row("vis_f", <<<<"A","7">>, "Subclavian B - axillary - brachial", <<"n","7">>, <<"n","8">>, 8100, 4700, 8100, 4700, 422000, 53, "6.73E+05","0","0","2.75","2.e6","-2253.","8.65e4">>),
       Row("vis_f", <<<<"A","2","1">>, "Subclavian B - axillary - brachial", <<"n","1","0">>, <<"n","1","1">>, 8100, 4700, 8100, 4700, 422000, 53, "6.73E+05","0","0","2.75","2.e6","-2253.","8.65e4">>),
       Row("vis_f", <<<<"A","8">>, "Radial", <<"n","8">>, <<"p","4">>, 3700, 3100, 3700, 3100, 235000, 25, "9.51E+05","0","0","2.75","2.e6","-2253.","8.65e4">>),
       Row("vis_f", <<<<"A","2","2">>, "Radial", <<"n","1","1">>, <<"p","1","7">>, 3500, 2800, 3500, 2800, 235000, 24, "9.98E+05","0","0","2.75","2.e6","-2253.","8.65e4">>),
       Row("vis_f", <<<<"A","9">>, "Ulnar A", <<"n","8">>, <<"n","9">>, 3700, 3400, 3700, 3400, 67000, 7, "9.24E+05","0","0","2.75","2.e6","-2253.","8.65e4">>),
       Row("vis_f", <<<<"A","2","3">>, "Ulnar A", <<"n","1","1">>, <<"n","1","2">>, 4300, 4300, 4300, 4300, 67000, 8, "8.24E+05","0","0","2.75","2.e6","-2253.","8.65e4">>),
       Row("vis_f", <<<<"A","1","0">>, "Interosseous", <<"n","9">>, <<"p","5">>, 3000, 3000, 3000, 3000, 79000, 11, "1.34E+06","0","0","2.75","2.e6","-2253.","8.65e4">>),
       Row("vis_f", <<<<"A","2","4">>, "Interosseous", <<"n","1","2">>, <<"p","1","6">>, 3000, 3000, 3000, 3000, 79000, 7, "1.40E+06","0","0","2.75","2.e6","-2253.","8.65e4">>),
       Row("vis_f", <<<<"A","1","1">>, "Ulnar B", <<"n","9">>, <<"p","6">>, 4100, 3700, 4100, 3700, 171000, 17, "1.02E+06","0","0","2.75","2.e6","-2253.","8.65e4">>),
       Row("vis_f", <<<<"A","2","5">>, "Ulnar B", <<"n","1","2">>, <<"p","1","5">>, 4100, 3700, 4100, 3700, 171000, 19, "8.74E+05","0","0","2.75","2.e6","-2253.","8.65e4">>),
       Row("vis_f", <<<<"A","1","2">>, "Internal carotid", <<"n","3","2">>, <<"n","4","6">>, 5700, 4300, 5700, 4300, 178000, 21, "7.60E+05","0","0","2.75","2.e6","-2253.","8.65e4">>),
       Row("vis_f", <<<<"A","1","6">>, "Internal carotid", <<"n","2","6">>, <<"n","3","7">>, 5300, 4100, 5300, 4100, 178000, 21, "7.87E+05","0","0","2.75","2.e6","-2253.","8.65e4">>),
       Row("vis_f", <<<<"A","1","3">>, "External carotid 1", <<"n","3","2">>, <<"n","3","3">>, 5000, 4500, 5000, 4500, 41000, 7, "7.78E+05","0","0","2.75","2.e6","-2253.","8.65e4">>),
       Row("vis_f", <<<<"A","1","7">>, "External carotid 1", <<"n","2","6">>, <<"n","2","7">>, 4700, 4300, 4700, 4300, 41000, 7, "8.03E+05","0","0","2.75","2.e6","-2253.","8.65e4">>),
       Row("vis_f", <<<<"A","1","4">>, "Aortic arch B", <<"n","3">>, <<"n","4">>, 21400, 20800, 21400, 20800, 39000, 7, "3.44E+05","0","0","2.75","2.e6","-2253.","8.65e4">>),
       Row("vis_f", <<<<"A","1","8">>, "Thoracic aorta A", <<"n","4">>, <<"n","5","1">>, 20000, 18900, 20000, 18900, 52000, 9, "3.59E+05","0","0","2.75","2.e6","-2253.","8.65e4">>),
       Row("vis_f", <<<<"A","2","6">>, "Intercostals", <<"n","5","1">>, <<"p","4","7">>, 12600, 9500, 12600, 9500, 80000, 12, "4.86E+05","0","0","2.75","2.e6","-2253.","8.65e4">>),
       Row("vis_f", <<<<"A","2","7">>, "Thoracic aorta B", <<"n","5","1">>, <<"n","5","2">>, 16500, 12900, 16500, 12900, 104000, 17, "4.17E+05","0","0","2.75","2.e6","-2253.","8.65e4">>),
       Row("vis_f", <<<<"A","2","8">>, "Abdominal aorta A", <<"n","5","2">>, <<"n","2","2">>, 12200, 12200, 12200, 12200, 53000, 8, "4.58E+05","0","0","2.75","2.e6","-2253.","8.65e4">>),
       Row("vis_f", <<<<"A","2","9">>, "Celiac A", <<"n","5","2">>, <<"n","2","0">>, 7800, 6900, 7800, 6900, 20000, 5, "6.06E+05","0","0","2.75","2.e6","-2253.","8.65e4">>),
       Row("vis_f", <<<<"A","3","0">>, "Celiac B", <<"n","2","0">>, <<"n","2","1">>, 5200, 4900, 5200, 4900, 20000, 5, "7.50E+05","0","0","2.75","2.e6","-2253.","8.65e4">>),
       Row("vis_f", <<<<"A","3","1">>, "Hepatic", <<"n","2","1">>, <<"p","1","8">>, 5400, 4400, 5400, 4400, 66000, 11, "7.67E+05","0","0","2.75","2.e6","-2253.","8.65e4">>),
       Row("vis_f", <<<<"A","3","2">>, "Gastric", <<"n","2","0">>, <<"p","1","9">>, 3200, 3000, 3200, 3000, 71000, 7, "1.00E+06","0","0","2.75","2.e6","-2253.","8.65e4">>),
       Row("vis_f", <<<<"A","3","3">>, "Splenic", <<"n","2","1">>, <<"p","2","0">>, 4200, 3900, 4200, 3900, 63000, 7, "8.54E+05","0","0","2.75","2.e6","-2253.","8.65e4">>),
       Row("vis_f", <<<<"A","3","4">>, "Superior mesenteric", <<"n","2","2">>, <<"p","2","2">>, 7900, 7100, 7900, 7100, 59000, 8, "5.99E+05","0","0","2.75","2.e6","-2253.","8.65e4">>),
       Row("vis_f", <<<<"A","3","5">>, "Abdominal aorta B", <<"n","2","2">>, <<"n","2","3">>, 11500, 11300, 11500, 11300, 20000, 5, "4.75E+05","0","0","2.75","2.e6","-2253.","8.65e4">>),
       Row("vis_f", <<<<"A","3","6">>, "Renal", <<"n","2","3">>, <<"p","2","1">>, 5200, 5200, 5200, 5200, 32000, 5, "7.37E+05","0","0","2.75","2.e6","-2253.","8.65e4">>),
       Row("vis_f", <<<<"A","3","8">>, "Renal", <<"n","2","4">>, <<"p","2","3">>, 5200, 5200, 5200, 5200, 32000, 5, "7.37E+05","0","0","2.75","2.e6","-2253.","8.65e4">>),
       Row("vis_f", <<<<"A","3","7">>, "Abdominal aorta C", <<"n","2","3">>, <<"n","2","4">>, 11800, 11800, 11800, 11800, 20000, 5, "4.66E+05","0","0","2.75","2.e6","-2253.","8.65e4">>),
       Row("vis_f", <<<<"A","3","9">>, "Abdominal aorta D", <<"n","2","4">>, <<"n","2","5">>, 11600, 11000, 11600, 11000, 106000, 16, "4.77E+05","0","0","2.75","2.e6","-2253.","8.65e4">>),
       Row("vis_f", <<<<"A","4","0">>, "Inferior mesenteric", <<"n","2","5">>, <<"p","2","4">>, 4700, 3200, 4700, 3200, 50000, 10, "8.80E+05","0","0","2.75","2.e6","-2253.","8.65e4">>),
       Row("vis_f", <<<<"A","4","1">>, "Abdominal aorta E", <<"n","2","5">>, <<"n","1","3">>, 10800, 10400, 10800, 10400, 20000, 5, "4.94E+05","0","0","2.75","2.e6","-2253.","8.65e4">>),
       Row("vis_f", <<<<"A","4","2">>, "Common iliac", <<"n","1","3">>, <<"n","1","4">>, 7900, 7000, 7900, 7000, 59000, 8, "6.01E+05","0","0","2.75","2.e6","-2253.","8.65e4">>),
       Row("vis_f", <<<<"A","4","3">>, "Common iliac", <<"n","1","3">>, <<"n","1","7">>, 7900, 7000, 7900, 7000, 59000, 8, "6.01E+05","0","0","2.75","2.e6","-2253.","8.65e4">>),
       Row("vis_f", <<<<"A","4","4">>, "External iliac", <<"n","1","7">>, <<"n","1","8">>, 6400, 6100, 6400, 6100, 144000, 18, "6.63E+05","0","0","2.75","2.e6","-2253.","8.65e4">>),
       Row("vis_f", <<<<"A","5","0">>, "External iliac", <<"n","1","4">>, <<"n","1","5">>, 6400, 6100, 6400, 6100, 144000, 18, "6.63E+05","0","0","2.75","2.e6","-2253.","8.65e4">>),
       Row("vis_f", <<<<"A","4","5">>, "Inner iliac", <<"n","1","7">>, <<"p","1","1">>, 4000, 4000, 4000, 4000, 50000, 6, "8.60E+05","0","0","2.75","2.e6","-2253.","8.65e4">>),
       Row("vis_f", <<<<"A","5","1">>, "Inner iliac", <<"n","1","4">>, <<"p","7">>, 4000, 4000, 4000, 4000, 50000, 6, "8.60E+05","0","0","2.75","2.e6","-2253.","8.65e4">>),
       Row("vis_f", <<<<"A","4","6">>, "Femoral", <<"n","1","8">>, <<"n","1","9">>, 5200, 3800, 5200, 3800, 443000, 51, "8.10E+05","0","0","2.75","2.e6","-2253.","8.65e4">>),
       Row("vis_f", <<<<"A","5","2">>, "Femoral", <<"n","1","5">>, <<"n","1","6">>, 5200, 3800, 5200, 3800, 443000, 51, "8.10E+05","0","0","2.75","2.e6","-2253.","8.65e4">>),
       Row("vis_f", <<<<"A","4","7">>, "Deep femoral", <<"n","1","8">>, <<"p","1","2">>, 4000, 3700, 4000, 3700, 126000, 14, "8.80E+05","0","0","2.75","2.e6","-2253.","8.65e4">>),
       Row("vis_f", <<<<"A","5","3">>, "Deep femoral", <<"n","1","5">>, <<"p","8">>, 4000, 3700, 4000, 3700, 126000, 14, "8.80E+05","0","0","2.75","2.e6","-2253.","8.65e4">>),
       Row("vis_f", <<<<"A","4","8">>, "Posterior tibial", <<"n","1","9">>, <<"p","1","3">>, 3100, 3000, 3100, 3000, 321000, 32, "1.03E+06","0","0","2.75","2.e6","-2253.","8.65e4">>),
       Row("vis_f", <<<<"A","5","4">>, "Posterior tibial", <<"n","1","6">>, <<"p","1","0">>, 3100, 3000, 3100, 3000, 321000, 32, "1.03E+06","0","0","2.75","2.e6","-2253.","8.65e4">>),
       Row("vis_f", <<<<"A","4","9">>, "Anterior tibial", <<"n","1","9">>, <<"p","1","4">>, 3000, 2800, 3000, 2800, 343000, 33, "1.16E+06","0","0","2.75","2.e6","-2253.","8.65e4">>),
       Row("vis_f", <<<<"A","5","5">>, "Anterior tibial", <<"n","1","6">>, <<"p","9">>, 3000, 2800, 3000, 2800, 343000, 33, "1.16E+06","0","0","2.75","2.e6","-2253.","8.65e4">>),
       Row("vis_f", <<<<"A","5","6">>, "Basilar artery 2", <<"n","3","1">>, <<"n","5","0">>, 4000, 3600, 4000, 3600, 20000, 5, "8.88E+05","0","0","2.75","2.e6","-2253.","8.65e4">>),
       Row("vis_f", <<<<"A","5","7">>, "Superior cerebellar", <<"n","5","0">>, <<"p","3","5">>, 1700, 1400, 1700, 1400, 10000, 5, "1.54E+06","0","0","2.75","2.e6","-2253.","8.65e4">>),
       Row("vis_f", <<<<"A","5","8">>, "Superior cerebellar", <<"n","5","0">>, <<"p","3","4">>, 1700, 1400, 1700, 1400, 10000, 5, "1.54E+06","0","0","2.75","2.e6","-2253.","8.65e4">>),
       Row("vis_f", <<<<"A","5","9">>, "Basilar artery 1", <<"n","5","0">>, <<"n","4","9">>, 3100, 2700, 3100, 2700, 5000, 5, "1.05E+06","0","0","2.75","2.e6","-2253.","8.65e4">>),
       Row("vis_f", <<<<"A","7","9">>, "Int. car. sinus", <<"n","4","6">>, <<"n","4","5">>, 4300, 3900, 4300, 3900, 11000, 5, "8.48E+05","0","0","2.75","2.e6","-2253.","8.65e4">>),
       Row("vis_f", <<<<"A","8","1">>, "Int. car. sinus", <<"n","3","7">>, <<"n","3","8">>, 4300, 3900, 4300, 3900, 11000, 5, "8.48E+05","0","0","2.75","2.e6","-2253.","8.65e4">>),
       Row("vis_f", <<<<"A","8","0">>, "Ophthalmic", <<"n","4","6">>, <<"p","3","7">>, 1000, 500, 1000, 500, 11000, 10, "2.59E+06","0","0","2.75","2.e6","-2253.","8.65e4">>),
       Row("vis_f", <<<<"A","8","2">>, "Ophthalmic", <<"n","3","7">>, <<"p","3","2">>, 1000, 500, 1000, 500, 11000, 10, "2.59E+06","0","0","2.75","2.e6","-2253.","8.65e4">>),
       Row("vis_f", <<<<"A","8","3">>, "External carotid 2", <<"n","3","3">>, <<"n","3","4">>, 4000, 3500, 4000, 3500, 61000, 9, "8.95E+05","0","0","2.75","2.e6","-2253.","8.65e4">>),
       Row("vis_f", <<<<"A","8","5">>, "External carotid 2", <<"n","2","7">>, <<"n","2","8">>, 4000, 3500, 4000, 3500, 61000, 9, "8.95E+05","0","0","2.75","2.e6","-2253.","8.65e4">>),
       Row("vis_f", <<<<"A","8","4">>, "Sup. thy. asc. ph. lyng. fac. occ.", <<"n","3","3">>, <<"p","4","4">>, 2000, 1000, 2000, 1000, 101000, 8, "1.65E+06","0","0","2.75","2.e6","-2253.","8.65e4">>),
       Row("vis_f", <<<<"A","8","6">>, "Sup. thy. asc. ph. lyng. fac. occ.", <<"n","2","7">>, <<"p","2","5">>, 2000, 1000, 2000, 1000, 101000, 8, "1.65E+06","0","0","2.75","2.e6","-2253.","8.65e4">>),
       Row("vis_f", <<<<"A","8","7">>, "Superficial temporal", <<"n","3","4">>, <<"n","3","5">>, 3200, 3000, 3200, 3000, 61000, 6, "1.00E+06","0","0","2.75","2.e6","-2253.","8.65e4">>),
       Row("vis_f", <<<<"A","8","9">>, "Superficial temporal", <<"n","2","8">>, <<"n","2","9">>, 3200, 3000, 3200, 3000, 61000, 6, "1.00E+06","0","0","2.75","2.e6","-2253.","8.65e4">>),
       Row("vis_f", <<<<"A","8","8">>, "Maxillary", <<"n","3","4">>, <<"p","4","3">>, 2200, 1000, 2200, 1000, 91000, 7, "1.61E+06","0","0","2.75","2.e6","-2253.","8.65e4">>),
       Row("vis_f", <<<<"A","9","0">>, "Maxillary", <<"n","2","8">>, <<"p","2","6">>, 2200, 1000, 2200, 1000, 91000, 9, "1.61E+06","0","0","2.75","2.e6","-2253.","8.65e4">>),
       Row("vis_f", <<<<"A","9","1">>, "Superficial temporal frontal br.", <<"n","3","5">>, <<"p","4","1">>, 2200, 1400, 2200, 1400, 100000, 9, "1.43E+06","0","0","2.75","2.e6","-2253.","8.65e4">>),
       Row("vis_f", <<<<"A","9","3">>, "Superficial temporal frontal br.", <<"n","2","9">>, <<"p","2","8">>, 2200, 1400, 2200, 1400, 100000, 11, "1.43E+06","0","0","2.75","2.e6","-2253.","8.65e4">>),
       Row("vis_f", <<<<"A","9","2">>, "Superficial temporal parietal br.", <<"n","3","5">>, <<"p","4","2">>, 2200, 1400, 2200, 1400, 101000, 9, "1.43E+06","0","0","2.75","2.e6","-2253.","8.65e4">>),
       Row("vis_f", <<<<"A","9","4">>, "Superficial temporal parietal br.", <<"n","2","9">>, <<"p","2","7">>, 2200, 1400, 2200, 1400, 101000, 11, "1.43E+06","0","0","2.75","2.e6","-2253.","8.65e4">>),
       Row("vis_f", <<<<"A","9","5">>, "Ascending aorta 2", <<"n","1">>, <<"n","2">>, 29300, 28800, 29300, 28800, 35000, 7, "2.94E+05","0","0","2.75","2.e6","-2253.","8.65e4">>),
       Row("vis_f", <<<<"A","9","6">>, "RightCoronary", <<"n","1">>, <<"p","1">>, 3600, 2600, 3600, 2600, 53700, 7, "8.60E+05","0.00E+00","0.00E+00","2.75","2.e6","-2253.","8.65e4">>),
       Row("vis_f", <<<<"A","9","7">>, "LeftMainCoronary", <<"n","1">>, <<"n","5","3">>, 4900, 4700, 4900, 4700, 5000, 7, "7.73E+05","0.00E+00","0.00E+00","2.75","2.e6","-2253.","8.65e4">>),
       Row("vis_f", <<<<"A","9","8">>, "LeftAnteriorDescending", <<"n","5","3">>, <<"p","2">>, 3800, 1500, 3800, 1500, 47000, 15, "8.60E+05","0.00E+00","0.00E+00","2.75","2.e6","-2253.","8.65e4">>),
       Row("vis_f", <<<<"A","9","9">>, "LeftCircumflex", <<"n","5","3">>, <<"p","3">>, 3500, 3100, 3500, 3100, 26000, 7, "8.60E+05","0.00E+00","0.00E+00","2.75","2.e6","-2253.","8.65e4">>),
       Row("vis_f", <<<<"A","1","0","0">>, "Ant. choroidal", <<"n","4","4">>, <<"p","4","5">>, 1500, 1300, 1500, 1300, 36000, 5, "1.64E+06","0","0","2.75","2.e6","-2253.","8.65e4">>),
       Row("vis_f", <<<<"A","1","0","2">>, "Ant. choroidal", <<"n","3","9">>, <<"p","4","6">>, 1500, 1300, 1500, 1300, 36000, 5, "1.64E+06","0","0","2.75","2.e6","-2253.","8.65e4">>),
       Row("vis_f", <<<<"A","6","6">>, "ICA distal PCo-ant. chor. seg.", <<"n","4","5">>, <<"n","4","4">>, 3900, 3800, 3900, 3800, 2000, 5, "8.80E+05","0","0","2.75","2.e6","-2253.","8.65e4">>),
       Row("vis_f", <<<<"A","6","7">>, "ICA distal PCo-ant. chor. seg.", <<"n","3","8">>, <<"n","3","9">>, 3900, 3800, 3900, 3800, 2000, 5, "8.80E+05","0","0","2.75","2.e6","-2253.","8.65e4">>),
       Row("vis_f", <<<<"A","1","0","1">>, "ICA distal cnt. chor.-M1 seg.", <<"n","4","4">>, <<"n","4","3">>, 3800, 3800, 3800, 3800, 2000, 5, "8.87E+05","0","0","2.75","2.e6","-2253.","8.65e4">>),
       Row("vis_f", <<<<"A","1","0","3">>, "ICA distal cnt. chor.-M1 seg.", <<"n","3","9">>, <<"n","4","0">>, 3800, 3800, 3800, 3800, 2000, 5, "8.87E+05","0","0","2.75","2.e6","-2253.","8.65e4">>) >>

\* f"n{i}", the body's node names
BodyNode(i) == <<"n">> \o Digits(i)

\* STATIC_NODES: a blank line, the node-table header, the heart H, the body
\* nodes n1..n53 with their stiffness, the body outlets p1..p47
STATIC_NODES ==
    <<BlankRow, meta_header, Row("heart", <<HEART_H, "0", "">>)>>
    \o [i \in 1..53 |->
          Row("node", <<BodyNode(i), "0",
                        IF i <= 4 THEN "5.27E+11"
                        ELSE IF i <= 25 THEN "7.27E+10" ELSE "4.27E+10", "">>)]
    \o [i \in 1..47 |-> PerifRow(Pid(i))]

\* INTERFACES
Basilar_Inlet == <<"n","4","9">>
R_ICA_Inlet == <<"n","4","3">>
L_ICA_Inlet == <<"n","4","0">>

\* the square root of a perfect square
ISqrt(n) == CHOOSE k \in 0..n : k * k = n

\* get_coords(node_id): the coordinates (millimetres) of the node, None if the
\* nodes file has no such node
get_coords(coords, id) == IF id \in DOMAIN coords THEN coords[id] ELSE <<>>

\* calc_gap_meters(id1, id2), in micrometres
calc_gap_meters(coords, id1, id2) ==
    LET c1 == get_coords(coords, id1)
        c2 == get_coords(coords, id2)
    IN  IF c1 # <<>> /\ c2 # <<>>
        THEN 1000 * ISqrt((c1[1] - c2[1]) * (c1[1] - c2[1])
                          + (c1[2] - c2[2]) * (c1[2] - c2[2])
                          + (c1[3] - c2[3]) * (c1[3] - c2[3]))
        ELSE 0

\* the (radius, length) get_geom falls back to: 0.0015, 0.01
DefaultGeom == [r |-> 1500, l |-> 10000]

\* get_geom(label_id, segment_name): radius and length (micrometres) of the
\* first record under feat_data[str(label_id)][segment_name], the default
\* when the group or the segment is missing
get_geom(segs, label_id, segment_name) ==
    LET hits == SelectSeq(segs, LAMBDA s : s.group = Digits(label_id) /\ s.name = segment_name)
    IN  IF hits = <<>> THEN DefaultGeom
        ELSE [r |-> hits[1].radius, l |-> hits[1].length]

\* the larger of 3 and int(l_m * 1000 / 2)
DivisionPoints(l) == IF l \div 2000 > 3 THEN l \div 2000 ELSE 3

\* fmt_artery: d = 2 r, h = 0.1 d printed with six decimals (whole
\* micrometres, kept in tenths), N division points, the cerebral material
fmt_artery(id_str, name, start, end, g, gap) ==
    Row("vis_f", <<id_str, name, start, end,
                   2 * g.r, 2 * g.r,
                   10 * ((2 * g.r + 5) \div 10), 10 * ((2 * g.r + 5) \div 10),
                   g.l + gap, DivisionPoints(g.l + gap),
                   "1.50E+06", "0", "0", "2.75", "2.00E+06", "-2.25E+03", "8.65E+04">>)

\* the flags generate_arterial reads from variant_data, in reading order
VariantFlags == <<"R-P1", "L-P1", "R-Pcom", "L-Pcom", "R-A1", "L-A1", "Acom">>

\* variant_data[...][flag] raises KeyError
V20KeyError(flags) == \E i \in 1..Len(VariantFlags) : VariantFlags[i] \notin DOMAIN flags

cow_n(i) == <<"c","o","w","_","n">> \o Digits(i)

junction_nodes == {cow_n(i) : i \in 1..5}

\* the orders a for loop can walk a set of strings in: the hash of a string
\* differs from one interpreter process to the next, so every order can occur
IterationOrders(S) == { s \in [1..Cardinality(S) -> S] : Range(s) = S }

\* the walks of junction_nodes the model explores: the sorted order shifted
\* round by 0..MaxShift places
JunctionOrders ==
    { o \in IterationOrders(junction_nodes) :
        \E k \in 0..MaxShift : \A i \in 1..5 : o[i] = cow_n(((i + k - 1) % 5) + 1) }

\* the six terminal outlets, in the order generate_arterial appends them
V20Outlets == <<<<"o","u","t","_","r","m","c","a">>, <<"o","u","t","_","l","m","c","a">>, <<"o","u","t","_","r","p","2">>, <<"o","u","t","_","l","p","2">>, <<"o","u","t","_","r","a","2">>, <<"o","u","t","_","l","a","2">>>>

\* the patient vessel rows of generate_arterial
PatientVessels(segs, coords, flags) ==
    <<fmt_artery(<<"P","_","B","A">>, "Pat_Basilar", Basilar_Inlet, cow_n(1), get_geom(segs, 1, <<"B","A">>), calc_gap_meters(coords, 51, 59))>>
    \o (IF flags["R-P1"] THEN <<fmt_artery(<<"P","_","R","P","1">>, "Pat_R_P1", cow_n(1), cow_n(2), get_geom(segs, 2, <<"P","1">>), 0)>> ELSE <<>>)
    \o (IF flags["L-P1"] THEN <<fmt_artery(<<"P","_","L","P","1">>, "Pat_L_P1", cow_n(1), cow_n(3), get_geom(segs, 3, <<"P","1">>), 0)>> ELSE <<>>)
    \o (IF flags["R-Pcom"] THEN <<fmt_artery(<<"P","_","R","P","c","o","m">>, "Pat_R_Pcom", R_ICA_Inlet, cow_n(2), get_geom(segs, 8, <<"P","c","o","m">>), calc_gap_meters(coords, 389, 619))>> ELSE <<>>)
    \o (IF flags["L-Pcom"] THEN <<fmt_artery(<<"P","_","L","P","c","o","m">>, "Pat_L_Pcom", L_ICA_Inlet, cow_n(3), get_geom(segs, 9, <<"P","c","o","m">>), calc_gap_meters(coords, 545, 527))>> ELSE <<>>)
    \o (IF flags["R-A1"] THEN <<fmt_artery(<<"P","_","R","A","1">>, "Pat_R_A1", R_ICA_Inlet, cow_n(4), get_geom(segs, 11, <<"A","1">>), calc_gap_meters(coords, 389, 689))>> ELSE <<>>)
    \o (IF flags["L-A1"] THEN <<fmt_artery(<<"P","_","L","A","1">>, "Pat_L_A1", L_ICA_Inlet, cow_n(5), get_geom(segs, 12, <<"A","1">>), calc_gap_meters(coords, 545, 809))>> ELSE <<>>)
    \o (IF flags["Acom"] THEN <<fmt_artery(<<"P","_","A","c","o","m">>, "Pat_Acom", cow_n(4), cow_n(5), get_geom(segs, 10, <<"A","c","o","m">>), 0)>> ELSE <<>>)
    \o << fmt_artery(<<"P","_","R","M","C","A">>, "Pat_R_MCA", R_ICA_Inlet, V20Outlets[1], get_geom(segs, 5, <<"M","C","A">>), 0),
          fmt_artery(<<"P","_","L","M","C","A">>, "Pat_L_MCA", L_ICA_Inlet, V20Outlets[2], get_geom(segs, 7, <<"M","C","A">>), 0),
          fmt_artery(<<"P","_","R","P","2">>, "Pat_R_P2", cow_n(2), V20Outlets[3], get_geom(segs, 2, <<"P","2">>), 0),
          fmt_artery(<<"P","_","L","P","2">>, "Pat_L_P2", cow_n(3), V20Outlets[4], get_geom(segs, 3, <<"P","2">>), 0),
          fmt_artery(<<"P","_","R","A","2">>, "Pat_R_A2", cow_n(4), V20Outlets[5], get_geom(segs, 11, <<"A","2">>), 0),
          fmt_artery(<<"P","_","L","A","2">>, "Pat_L_A2", cow_n(5), V20Outlets[6], get_geom(segs, 12, <<"A","2">>), 0) >>

\* generate_arterial: header, body vessels, patient vessels, body nodes, the
\* junction nodes in the order the set is walked in, the outlets
generate_arterial(segs, coords, flags, order) ==
    File(<<arterial_header>> \o STATIC_VESSELS \o PatientVessels(segs, coords, flags)
         \o STATIC_NODES
         \o [i \in 1..Len(order) |-> Row("node", <<order[i], "0", "4.27E+10", "">>)]
         \o [i \in 1..Len(V20Outlets) |-> PerifRow(V20Outlets[i])])

\* generate_main: the arterial model at Heart/H, the heart, the body outlets
\* p1..p47 and the patient outlets, all at local node n1
generate_main(outlets) ==
    File(<< Row("run", <<"forward">>), Row("time", <<"10.0">>),
            Row("material", <<"linear">>), Row("solver", <<"maccormack">>),
            BlankRow, Row("type", <<"name", "main node", "model node">>),
            Row("moc", <<"arterial", HEART_NODE, HEART_H>>), BlankRow,
            LumpedRow(HEART, HEART_NODE, AORTA) >>
         \o [i \in 1..47 |-> LumpedRow(Pid(i), Pid(i), N1)]
         \o [i \in 1..Len(outlets) |-> LumpedRow(outlets[i], outlets[i], N1)]
         \o <<BlankRow, NodeRow(HEART_NODE)>>)

\* wk_content(name, proximal_node): the fixed WK_PROPS three-element circuit
wk_content(proximal_node) ==
    << Row("data of edges", <<>>),
       Row("type", <<"name", "node start", "node end", "initial condition [SI]", "parameter [SI]">>),
       Row("resistor", <<<<"R","_","p","r","o","x">>, proximal_node, <<"p","_","m","i","d">>, "0.0", "1.45E+08">>),
       Row("resistor", <<<<"R","_","d","i","s","t">>, <<"p","_","m","i","d">>, GROUND, "0.0", "1.00E+09">>),
       Row("capacitor", <<<<"C","_","w","k">>, <<"p","_","m","i","d">>, GROUND, "0.0", "8.00E-10">>),
       BlankRow,
       Row("data of nodes", <<>>),
       Row("type", <<"name", "initial condition [SI]">>),
       Row("node", <<proximal_node, "1.00e+05">>),
       Row("node", <<<<"p","_","m","i","d">>, "1.00e+05">>),
       Row("ground", <<GROUND, "1.00e+05">>) >>

\* generate_windkessel_files: one file per patient outlet and per body outlet
generate_windkessel_files(circuits, outlets) ==
    [x \in DOMAIN circuits \cup Range(outlets) \cup {Pid(i) : i \in 1..47} |->
        IF x \in Range(outlets) \cup {Pid(i) : i \in 1..47}
        THEN wk_content(N1) ELSE circuits[x]]

\* copy_heart: the reference heart model, or the built-in default one
copy_heart(circuits, ref) ==
    DictPut(circuits, HEART,
            IF ref THEN <<Row("heart model", <<>>)>> ELSE <<Row("default heart model", <<>>)>>)

\* one run of V20_generate.py: nothing is written when a variant flag is missing
V20Generate(d, segs, coords, flags, ref, order) ==
    IF V20KeyError(flags)
    THEN RunResult(d, "KeyError", <<>>, <<>>, <<>>, <<>>, NoneNode, <<>>)
    ELSE RunResult([arterial |-> generate_arterial(segs, coords, flags, order),
                    main |-> generate_main(V20Outlets),
                    circuits |-> generate_windkessel_files(copy_heart(d.circuits, ref), V20Outlets)],
                   "ok", <<ARTERIAL_CSV, MAIN_CSV, HEART>> \o V20Outlets \o [i \in 1..47 |-> Pid(i)],
                   <<>>, <<>>, <<>>, NoneNode, V20Outlets)

-----------------------------------------------------------------------------
(* Specification of repeated V20 runs on one patient *)

\* a patient without feature records and coordinates (every vessel gets the
\* default geometry), and one with a basilar artery, a right P1 and the
\* coordinates of the basilar connection, 5 mm apart
V20Patients ==
    { [feat |-> <<>>, coords |-> <<>>],
      [feat |-> <<Seg(<<"1">>, <<"B","A">>, 51, 59), Seg(<<"2">>, <<"P","1">>, 59, 60)>>,
       coords |-> (51 :> <<0, 0, 0>>) @@ (59 :> <<3, 4, 0>>)] }

AllOpen == [k \in Range(VariantFlags) |-> TRUE]

AllClosed == [k \in Range(VariantFlags) |-> FALSE]

\* a complete circle, one without the anterior communicating artery, one
\* with the left P1 and the left Pcom only, one without any optional branch,
\* and variant files that lack the Acom entry or the R-P1 entry
V20Variants ==
    { AllOpen, [AllOpen EXCEPT !["Acom"] = FALSE],
      [AllClosed EXCEPT !["L-P1"] = TRUE, !["L-Pcom"] = TRUE], AllClosed,
      Restrict(AllOpen, Range(VariantFlags) \ {"Acom"}),
      Restrict(AllOpen, Range(VariantFlags) \ {"R-P1"}) }

InitV20 ==
    /\ gen = "V20"
    /\ \E p \in V20Patients : feat = p.feat /\ lmk = p.coords
    /\ variant \in V20Variants
    /\ refHeart \in BOOLEAN
    /\ dir = EmptyDir
    /\ run = NoRun
    /\ runs = 0
    /\ prevDir = EmptyDir
    /\ report = NoReport
    /\ base = NoBase

\* python V20_generate.py on the same input files, in a new interpreter process
RunV20 ==
    /\ gen = "V20"
    /\ runs < MaxRuns
    /\ \E order \in JunctionOrders :
          LET r == V20Generate(dir, feat, lmk, variant, refHeart, order)
          IN  /\ dir' = r.dir
              /\ prevDir' = dir
              /\ run' = [r EXCEPT !.dir = EmptyDir]
              /\ runs' = runs + 1
    /\ UNCHANGED <<gen, feat, lmk, refHeart, variant, report, base>>

SpecV20 == InitV20 /\ [][RunV20]_vars

\* C7: two V20 runs on identical input leave identical artifacts: the same
\* rows of arterial.csv, the same lumped rows of main.csv and the same
\* Windkessel files, in the same order.
C7_RepeatableBuild ==
    (gen = "V20" /\ runs = 2 /\ run.status = "ok") =>
        /\ dir.arterial.rows = prevDir.arterial.rows
        /\ RowsOfType(dir.main, "lumped") = RowsOfType(prevDir.main, "lumped")
        /\ dir.circuits = prevDir.circuits

\* the part of C7 that does hold: main.csv and the circuit files repeat
C7_MainAndCircuitsRepeat ==
    (gen = "V20" /\ runs = 2 /\ run.status = "ok") =>
        /\ dir.main = prevDir.main
        /\ dir.circuits = prevDir.circuits

-----------------------------------------------------------------------------
(* The validators: validate_model.py and check_data_errors.py.  Both read   *)
(* the files as csv: a line is the list of its cells, every cell a text.    *)

\* the text of the first cell of the rows the validators are run on
TypeText ==
    [t \in {"run", "time", "material", "solver", "type", "moc", "lumped", "node",
            "data of edges", "data of nodes", "resistor", "ground", "rho",
            "id_start", "N2", "N10", "N15"} |->
        CASE t = "run" -> <<"r","u","n">> [] t = "time" -> <<"t","i","m","e">>
          [] t = "material" -> <<"m","a","t","e","r","i","a","l">> [] t = "solver" -> <<"s","o","l","v","e","r">>
          [] t = "type" -> <<"t","y","p","e">> [] t = "moc" -> <<"m","o","c">>
          [] t = "lumped" -> <<"l","u","m","p","e","d">> [] t = "node" -> <<"n","o","d","e">>
          [] t = "data of edges" -> <<"d","a","t","a"," ","o","f"," ","e","d","g","e","s">>
          [] t = "data of nodes" -> <<"d","a","t","a"," ","o","f"," ","n","o","d","e","s">>
          [] t = "resistor" -> <<"r","e","s","i","s","t","o","r">> [] t = "ground" -> <<"g","r","o","u","n","d">>
          [] t = "rho" -> <<"r","h","o">> [] t = "id_start" -> <<"i","d","_","s","t","a","r","t">>
          [] t = "N2" -> <<"N","2">> [] t = "N10" -> <<"N","1","0">>
          [] t = "N15" -> <<"N","1","5">>]

\* csv.reader: the cells of one line, [] for an empty line
Cells(row) ==
    IF row.type = "" /\ row.f = <<>> THEN <<>> ELSE <<TypeText[row.type]>> \o row.f

Lines(file) == [i \in 1..Len(file.rows) |-> Cells(file.rows[i])]

\* text.startswith(prefix)
StartsWith(text, prefix) ==
    Len(text) >= Len(prefix) /\ SubSeq(text, 1, Len(prefix)) = prefix

Raised(exception) == [outcome |-> "raised", exception |-> exception, entries |-> {}]
Reported(entries) == [outcome |-> "reported", exception |-> "", entries |-> entries]

Entry(kind, args) == [kind |-> kind, args |-> args]

\* a report that prints only the first error found
PrintedFirstOnly(errors) ==
    [outcome |-> "reported", exception |-> "",
     entries |-> IF errors = <<>> THEN {} ELSE {errors[1]},
     lines |-> IF errors = <<>> THEN <<>> ELSE <<errors[1]>>,
     total |-> IF errors = <<>> THEN <<>> ELSE <<1>>]

\* the report of validate_model and find_undefined_nodes: one line for every
\* element of the errors list and, when there is one, the line with len(errors)
Printed(errors) ==
    [outcome |-> "reported", exception |-> "", entries |-> Range(errors),
     lines |-> errors,
     total |-> IF errors = <<>> THEN <<>> ELSE <<Len(errors)>>]

\* print of an error message followed by exit(1)
Exited(entry) == [outcome |-> "exited", exception |-> "", entries |-> {entry}]

\* a for loop over a set: the elements in some order
RECURSIVE SomeOrder(_)
SomeOrder(S) ==
    IF S = {} THEN <<>>
    ELSE LET x == CHOOSE y \in S : TRUE IN <<x>> \o SomeOrder(S \ {x})

\* validate_model: lines the main.csv loop passes over
VmSkip(line) == line = <<>> \/ line[1] = <<>> \/ Head(line[1]) = "#"

\* validate_model: the (main_node, model_name) pairs of a moc line, read two
\* cells at a time from the third cell on
VmMocPairs(line) ==
    [j \in 1..((Len(line) - 2) \div 2) |-> <<line[2 * j + 1], line[2 * j + 2]>>]

\* validate_model: declared_nodes, lumped_nodes and moc_connections after the
\* first k lines of main.csv, or the exception a line died of
RECURSIVE VmParse(_, _)
VmParse(lines, k) ==
    IF k = 0 THEN [exc |-> "", declared |-> {}, lumped |-> <<>>, moc |-> <<>>]
    ELSE LET s == VmParse(lines, k - 1)
             line == lines[k]
         IN  IF s.exc # "" \/ VmSkip(line) THEN s
             ELSE IF line[1] = <<"n","o","d","e">>
             THEN IF Len(line) < 2 THEN [s EXCEPT !.exc = "IndexError"]
                  ELSE [s EXCEPT !.declared = @ \cup {line[2]}]
             ELSE IF line[1] = <<"l","u","m","p","e","d">>
             THEN IF Len(line) < 4 THEN [s EXCEPT !.exc = "ValueError"]
                  ELSE [s EXCEPT !.lumped = Append(@, <<line[2], line[3], line[4]>>)]
             ELSE IF line[1] = <<"m","o","c">>
             THEN [s EXCEPT !.moc = @ \o VmMocPairs(line)]
             ELSE s

\* validate_model: the entries the lumped loop appends, a mismatch before a
\* missing declaration
VmLumpedErrors(s) ==
    Flatten([i \in 1..Len(s.lumped) |->
        (IF s.lumped[i][3] # s.lumped[i][2]
         THEN <<Entry("LUMPED mismatch", s.lumped[i])>> ELSE <<>>)
        \o (IF s.lumped[i][2] \notin s.declared
            THEN <<Entry("LUMPED not declared", s.lumped[i])>> ELSE <<>>)])

\* validate_model: the entries the moc loop appends
VmMocErrors(s) ==
    Flatten([i \in 1..Len(s.moc) |->
        IF s.moc[i][1] \notin s.declared
        THEN <<Entry("MOC not declared", s.moc[i])>> ELSE <<>>])

\* model_dir.glob("p*.csv")
px_files(d) == { n \in DOMAIN d.circuits : Head(n) = "p" }

\* the (cell, file) pairs of one p-file: the first two cells of every line
\* after the first that has two
PxOf(d, n) ==
    LET lines == Lines(File(d.circuits[n]))
    IN  UNION { {<<lines[i][1], n>>, <<lines[i][2], n>>} :
                i \in {j \in 2..Len(lines) : Len(lines[j]) >= 2} }

\* validate_model.py, run on directory d
validate_model(d) ==
    IF ~d.main.exists THEN Raised("FileNotFoundError")
    ELSE LET s == VmParse(Lines(d.main), Len(d.main.rows))
             px == UNION { PxOf(d, n) : n \in px_files(d) }
             moc_set == Range(s.moc)
         IN  IF s.exc # "" THEN Raised(s.exc)
             ELSE IF \E n \in px_files(d) : d.circuits[n] = <<>> THEN Raised("StopIteration")
             ELSE Printed(
                   VmLumpedErrors(s) \o VmMocErrors(s)
                   \o SomeOrder({ Entry("pX node not in main.csv", c) : c \in px \ moc_set })
                   \o SomeOrder({ Entry("main.csv node not in pX", c) : c \in moc_set \ px }))

\* find_undefined_nodes: declared_nodes and used_nodes after the first k rows
\* of main.csv, or the exception a row died of
RECURSIVE FuParse(_, _)
FuParse(lines, k) ==
    IF k = 0 THEN [exc |-> "", declared |-> {}, used |-> {}]
    ELSE LET s == FuParse(lines, k - 1)
             row == lines[k]
         IN  IF s.exc # "" \/ row = <<>> THEN s
             ELSE IF row[1] = <<"n","o","d","e">>
             THEN IF Len(row) < 2 THEN [s EXCEPT !.exc = "IndexError"]
                  ELSE [s EXCEPT !.declared = @ \cup {Strip(row[2])}]
             ELSE IF row[1] = <<"l","u","m","p","e","d">>
             THEN IF Len(row) < 4 THEN [s EXCEPT !.exc = "IndexError"]
                  ELSE [s EXCEPT !.used = @ \cup {Strip(row[3]), Strip(row[4])}]
             ELSE IF row[1] = <<"m","o","c">>
             THEN [s EXCEPT !.used = @ \cup {Strip(row[i]) : i \in {j \in 3..Len(row) : j % 2 = 1}}]
             ELSE s

\* find_undefined_nodes.py, run on directory d
find_undefined_nodes(d) ==
    IF ~d.main.exists THEN Exited(Entry("main.csv not found", <<>>))
    ELSE LET s == FuParse(Lines(d.main), Len(d.main.rows))
             undefined == Sorted(s.used \ s.declared)
         IN  IF s.exc # "" THEN Raised(s.exc)
             ELSE Printed([i \in 1..Len(undefined) |->
                             Entry("used but NOT declared", <<undefined[i]>>)])

\* check_data_errors: errors, declared_nodes, p_files and moc_found after the
\* first k rows of main.csv, or the exception a row died of
RECURSIVE CdParse(_, _)
CdParse(lines, k) ==
    IF k = 0 THEN [exc |-> "", errors |-> {}, declared |-> {}, p_files |-> {}, moc_found |-> FALSE]
    ELSE LET s == CdParse(lines, k - 1)
             row == lines[k]
         IN  IF s.exc # "" \/ row = <<>> THEN s
             ELSE IF StartsWith(row[1], <<"n","o","d","e">>)
             THEN IF Len(row) < 2 THEN [s EXCEPT !.exc = "IndexError"]
                  ELSE [s EXCEPT !.declared = @ \cup {row[2]}]
             ELSE IF StartsWith(row[1], <<"l","u","m","p","e","d">>)
             THEN IF Len(row) < 4 THEN [s EXCEPT !.exc = "IndexError"]
                  ELSE [s EXCEPT !.declared = @ \cup {row[3], row[4]},
                                 !.p_files = @ \cup {row[2]}]
             ELSE IF row[1] = <<"m","o","c">>
             THEN IF Len(row) % 2 # 0 /\ Len(row) >= 3
                  THEN [s EXCEPT !.exc = "IndexError"]
                  ELSE [s EXCEPT !.moc_found = TRUE,
                                 !.errors = @ \cup (IF Len(row) % 2 # 0
                                                    THEN {Entry("moc line unpaired", <<>>)} ELSE {}),
                                 !.declared = @ \cup {row[2 * j + 1] : j \in 1..((Len(row) - 2) \div 2)},
                                 !.p_files = @ \cup {row[2 * j + 2] : j \in 1..((Len(row) - 2) \div 2)}]
             ELSE s

required == <<<<"i","d","_","s","t","a","r","t">>, <<"i","d","_","e","n","d">>, <<"l","e","n","g","t","h">>, <<"d","i","a","m","e","t","e","r">>, <<"w","a","l","l","_","t","h","i","c","k","n","e","s","s">>, <<"E","1">>, <<"E","2">>, <<"e","t","a">>>>

\* csv.DictReader: the rows after the header line, empty lines skipped
DataRows(lines) == SelectSeq(Tail(lines), LAMBDA l : l # <<>>)

\* row[name] of a DictReader row, None (no text) when the row is too short
Field(headers, row, name) ==
    LET i == CHOOSE j \in 1..Len(headers) : headers[j] = name
    IN  IF i <= Len(row) THEN <<row[i]>> ELSE <<>>

\* check_data_errors: the exception the check of file p dies of, "" if none
CdFileRaises(d, p) ==
    IF p \notin DOMAIN d.circuits THEN ""
    ELSE LET lines == Lines(File(d.circuits[p]))
         IN  IF lines = <<>> THEN "TypeError"
             ELSE IF DataRows(lines) # <<>>
                     /\ (<<"i","d","_","s","t","a","r","t">> \notin Range(lines[1]) \/ <<"i","d","_","e","n","d">> \notin Range(lines[1]))
             THEN "KeyError"
             ELSE ""

\* check_data_errors: the report entries of file p
CdFileErrors(d, p, declared) ==
    IF p \notin DOMAIN d.circuits THEN {Entry("Missing file", <<p>>)}
    ELSE LET lines == Lines(File(d.circuits[p]))
             headers == lines[1]
         IN  { Entry("missing field", <<p, required[i]>>) :
                 i \in {j \in 1..Len(required) : required[j] \notin Range(headers)} }
             \cup UNION { { Entry("id not declared", <<p, name>> \o Field(headers, row, name)) :
                              name \in {x \in {<<"i","d","_","s","t","a","r","t">>, <<"i","d","_","e","n","d">>} :
                                            Range(Field(headers, row, x)) \cap declared = {}} } :
                          row \in Range(DataRows(lines)) }

\* check_data_errors: the arterial.csv format check
CdArterial(d) ==
    IF ~d.arterial.exists THEN Reported({Entry("arterial.csv is missing", <<>>)})
    ELSE LET lines == Lines(d.arterial)
         IN  IF Len(lines) < 4 THEN Reported({Entry("arterial.csv format", <<>>)})
             ELSE IF lines[1] = <<>> THEN Raised("IndexError")
             ELSE IF lines[1][1] # <<"r","h","o">> THEN Reported({Entry("arterial.csv format", <<>>)})
             ELSE Reported({})

\* check_data_errors.py, run on directory d
check_data_errors(d) ==
    IF ~d.main.exists THEN Raised("NameError")
    ELSE LET s == CdParse(Lines(d.main), Len(d.main.rows))
             order == Sorted(s.p_files)
             bad == {i \in 1..Len(order) : CdFileRaises(d, order[i]) # ""}
             art == CdArterial(d)
         IN  IF s.exc # "" THEN Raised(s.exc)
             ELSE IF bad # {} THEN Raised(CdFileRaises(d, order[CHOOSE i \in bad : \A j \in bad : i <= j]))
             ELSE IF art.outcome = "raised" THEN art
             ELSE Reported(s.errors
                           \cup (IF s.moc_found THEN {} ELSE {Entry("No moc line", <<>>)})
                           \cup UNION { CdFileErrors(d, p, s.declared) : p \in s.p_files }
                           \cup art.entries)

-----------------------------------------------------------------------------
(* Specification of one validator run on a model directory *)

\* main.csv: the moc line is missing, well paired, or has a trailing cell
\* without partner
ValMocRows ==
    { <<>>,
      <<Row("moc", <<"arterial", NodeName(2), NodeName(2)>>)>>,
      <<Row("moc", <<"arterial", NodeName(2), NodeName(2), NodeName(10)>>)>> }

\* main.csv: a lumped line with its three cells after the keyword, one with
\* main and model node alike, and one with only two
ValLumpedRows ==
    { <<LumpedRow(Pid(1), NodeName(10), N1)>>,
      <<LumpedRow(Pid(1), NodeName(10), NodeName(10))>>,
      <<Row("lumped", <<Pid(1), NodeName(10)>>)>> }

\* main.csv: both nodes declared, one of them (once with a blank before the
\* name), or none
ValNodeRows ==
    { <<NodeRow(NodeName(2)), NodeRow(NodeName(10))>>, <<NodeRow(NodeName(2))>>,
      <<NodeRow(NodeName(2)), NodeRow(<<" ">> \o NodeName(10))>>, <<>> }

ValMainFiles ==
    {NoFile} \cup
    { File(main_prologue \o moc \o <<BlankRow>> \o lumped \o <<BlankRow>> \o nodes) :
        moc \in ValMocRows, lumped \in ValLumpedRows, nodes \in ValNodeRows }

\* p1.csv: absent, empty, a circuit file, or a table with the columns
\* check_data_errors asks for
ValCircuits ==
    { <<>>,
      (Pid(1) :> <<>>),
      (Pid(1) :> << Row("data of edges", <<>>),
                    Row("type", <<<<"n","a","m","e">>, <<"n","o","d","e"," ","s","t","a","r","t">>, <<"n","o","d","e"," ","e","n","d">>>>),
                    Row("resistor", <<<<"R","0">>, NodeName(10), P1>>),
                    BlankRow,
                    Row("data of nodes", <<>>),
                    Row("node", <<NodeName(10), <<"1","0","0","0","0","0",".","0">>>>) >>),
      (Pid(1) :> << Row("id_start", <<<<"i","d","_","e","n","d">>, <<"l","e","n","g","t","h">>, <<"d","i","a","m","e","t","e","r">>, <<"w","a","l","l","_","t","h","i","c","k","n","e","s","s">>, <<"E","1">>, <<"E","2">>, <<"e","t","a">>>>),
                    Row("N2", <<NodeName(10), <<"0",".","0","2">>>>) >>) }

\* arterial.csv: absent, in the rho/nu format, or starting with an empty line
ValArterialFiles ==
    { NoFile,
      File(<< Row("rho", <<<<"1","0","5","0">>>>), Row("type", <<<<"I","D">>>>), BlankRow, Row("node", <<NodeName(2)>>) >>),
      File(<< BlankRow, Row("rho", <<<<"1","0","5","0">>>>), Row("type", <<<<"I","D">>>>), Row("node", <<NodeName(2)>>) >>) }

ValDirs ==
    { [arterial |-> a, main |-> m, circuits |-> c] :
        a \in ValArterialFiles, m \in ValMainFiles, c \in ValCircuits }

Validators == {"validate_model", "check_data_errors", "find_undefined_nodes"}

InitVal ==
    /\ gen \in Validators
    /\ dir \in ValDirs
    /\ feat = <<>>
    /\ lmk = NoLandmarks
    /\ refHeart = FALSE
    /\ run = NoRun
    /\ runs = 0
    /\ variant = NoVariant
    /\ prevDir = EmptyDir
    /\ report = NoReport
    /\ base = NoBase

\* python validate_model.py
RunValidateModel ==
    /\ gen = "validate_model"
    /\ runs = 0
    /\ report' = validate_model(dir)
    /\ runs' = 1
    /\ UNCHANGED <<gen, feat, lmk, refHeart, dir, run, variant, prevDir, base>>

\* python check_data_errors.py
RunCheckDataErrors ==
    /\ gen = "check_data_errors"
    /\ runs = 0
    /\ report' = check_data_errors(dir)
    /\ runs' = 1
    /\ UNCHANGED <<gen, feat, lmk, refHeart, dir, run, variant, prevDir, base>>

\* python find_undefined_nodes.py
RunFindUndefinedNodes ==
    /\ gen = "find_undefined_nodes"
    /\ runs = 0
    /\ report' = find_undefined_nodes(dir)
    /\ runs' = 1
    /\ UNCHANGED <<gen, feat, lmk, refHeart, dir, run, variant, prevDir, base>>

NextVal == RunValidateModel \/ RunCheckDataErrors \/ RunFindUndefinedNodes

SpecVal == InitVal /\ [][NextVal]_vars

\* the defects C10 names, as they show in the directory
MainMissing == ~dir.main.exists
ShortLumpedRow == \E r \in Range(dir.main.rows) : r.type = "lumped" /\ Len(r.f) < 3
UnpairedMoc == \E r \in Range(dir.main.rows) : r.type = "moc" /\ Len(r.f) % 2 = 0
EmptyPFile == \E n \in DOMAIN dir.circuits : dir.circuits[n] = <<>>

\* C10: a validator run always ends with a printed report, never with an
\* uncaught exception, and a missing main.csv, a short lumped row, an
\* unpaired moc cell or an empty p-file shows as a report entry.
C10_ValidatorsAlwaysReport ==
    runs = 1 =>
        /\ report.outcome = "reported"
        /\ (MainMissing \/ ShortLumpedRow \/ UnpairedMoc \/ EmptyPFile) => report.entries # {}

\* the part of C10 that holds of a directory without those defects, as far
\* as main.csv and the p-files go: validate_model prints its report
C10_CleanDirectoryReported ==
    (runs = 1 /\ gen = "validate_model"
       /\ ~(MainMissing \/ ShortLumpedRow \/ EmptyPFile))
    => report.outcome = "reported"


-----------------------------------------------------------------------------
(* Completeness of the node reports *)

\* the node names main.csv declares, surrounding blanks aside
DeclaredInMain ==
    { Strip(r.f[1]) : r \in {x \in Range(dir.main.rows) : x.type = "node" /\ Len(x.f) >= 1} }

\* the node names a lumped row or a (node, model node) pair of the moc row of
\* main.csv refers to
ReferencedInMain ==
    UNION { {Strip(r.f[2]), Strip(r.f[3])} :
              r \in {x \in Range(dir.main.rows) : x.type = "lumped" /\ Len(x.f) >= 3} }
    \cup UNION { {Strip(r.f[2 * j]) : j \in 1..((Len(r.f) - 1) \div 2)} :
                  r \in {x \in Range(dir.main.rows) : x.type = "moc"} }

UndeclaredInMain == ReferencedInMain \ DeclaredInMain

\* a line of the report names node n
Names(entry, n) == \E i \in 1..Len(entry.args) : Strip(entry.args[i]) = n

NodeReporters == {"validate_model", "find_undefined_nodes"}

\* a run that leaves the directory alone and whose report, if it prints one,
\* names every undeclared node and totals its lines
CompleteReportStep ==
    /\ dir' = dir
    /\ (report'.outcome = "reported") =>
          /\ \A n \in UndeclaredInMain :
                \E i \in 1..Len(report'.lines) : Names(report'.lines[i], n)
          /\ report'.total = (IF report'.lines = <<>> THEN <<>>
                              ELSE <<Len(report'.lines)>>)

C11_WitnessFind ==
    /\ gen = "find_undefined_nodes" /\ runs = 1 /\ report.outcome = "reported"
    /\ Cardinality(UndeclaredInMain) >= 2
    /\ report.total = <<Cardinality(UndeclaredInMain)>>

-----------------------------------------------------------------------------
(* V23: the reference model cloned into the output directory, then the     *)
(* geometry cells of its Circle-of-Willis vessels overwritten in           *)
(* arterial.csv.  Lengths and diameters are in micrometres, thicknesses in *)
(* tenths of a micrometre; a length that is a quotient is kept as num/den. *)

\* COW_VESSELS: vessel ID -> (label, segment name)
COW_VESSELS ==
    (<<"A","5","6">> :> [label |-> 1, segname |-> <<"B","A">>])
    @@ (<<"A","5","9">> :> [label |-> 1, segname |-> <<"B","A">>])
    @@ (<<"A","6","0">> :> [label |-> 2, segname |-> <<"P","1">>])
    @@ (<<"A","6","1">> :> [label |-> 3, segname |-> <<"P","1">>])
    @@ (<<"A","6","2">> :> [label |-> 8, segname |-> <<"P","c","o","m">>])
    @@ (<<"A","6","3">> :> [label |-> 9, segname |-> <<"P","c","o","m">>])
    @@ (<<"A","6","4">> :> [label |-> 2, segname |-> <<"P","2">>])
    @@ (<<"A","6","5">> :> [label |-> 3, segname |-> <<"P","2">>])
    @@ (<<"A","6","8">> :> [label |-> 11, segname |-> <<"A","1">>])
    @@ (<<"A","6","9">> :> [label |-> 12, segname |-> <<"A","1">>])
    @@ (<<"A","7","6">> :> [label |-> 11, segname |-> <<"A","2">>])
    @@ (<<"A","7","8">> :> [label |-> 12, segname |-> <<"A","2">>])
    @@ (<<"A","7","7">> :> [label |-> 10, segname |-> <<"A","c","o","m">>])
    @@ (<<"A","7","0">> :> [label |-> 5, segname |-> <<"M","C","A">>])
    @@ (<<"A","7","3">> :> [label |-> 7, segname |-> <<"M","C","A">>])

\* discretize(L_m): max(5, int(L_m * 1000 / 5))
discretize(L) == Max(5, L.num \div (5000 * L.den))

\* f"{L:.6f}": the length in whole micrometres, rounded to the nearest
Micrometres(L) == (2 * L.num + L.den) \div (2 * L.den)

\* L56_orig / L59_orig: float(r[9]) of the last vis_f row of that ID that has
\* a tenth cell, None when there is no such row
RECURSIVE OrigLength(_, _)
OrigLength(body, id) ==
    IF body = <<>> THEN [some |-> FALSE, v |-> 0]
    ELSE LET r == body[Len(body)]
         IN  IF r.type = "vis_f" /\ Len(r.f) >= 9 /\ r.f[1] = id
             THEN [some |-> TRUE, v |-> r.f[9]]
             ELSE OrigLength(SubSeq(body, 1, Len(body) - 1), id)

\* L56_new and L59_new: the patient's basilar length split in the ratio of the
\* two original lengths, in halves when that ratio is not to be had
BasilarSplit(body, L_ba) ==
    LET L56_orig == OrigLength(body, <<"A","5","6">>)
        L59_orig == OrigLength(body, <<"A","5","9">>)
        Ltot == L56_orig.v + L59_orig.v
    IN  IF L56_orig.some /\ L59_orig.some /\ Ltot > 0
        THEN [L56_new |-> [num |-> L_ba * L56_orig.v, den |-> Ltot],
              L59_new |-> [num |-> L_ba * L59_orig.v, den |-> Ltot]]
        ELSE [L56_new |-> [num |-> L_ba, den |-> 2],
              L59_new |-> [num |-> L_ba, den |-> 2]]

\* d, h, L of the overwrite of vessel vid
CowGeometry(segs, vid, split) ==
    LET ba == vid \in {<<"A","5","6">>, <<"A","5","9">>}
        g == IF ba THEN get_geom(segs, 1, <<"B","A">>)
             ELSE get_geom(segs, COW_VESSELS[vid].label, COW_VESSELS[vid].segname)
    IN  [d |-> 2 * g.r,
         h |-> 10 * ((2 * g.r + 5) \div 10),
         L |-> IF vid = <<"A","5","6">> THEN split.L56_new
               ELSE IF vid = <<"A","5","9">> THEN split.L59_new
               ELSE [num |-> g.l, den |-> 1]]

\* a faulty variant: the overwrite also renames the vessel's end node
OverwriteAndRelink(r, geom) ==
    Row(r.type,
        [k \in 1..Len(r.f) |->
            CASE k \in {5, 6} -> geom.d
              [] k \in {7, 8} -> geom.h
              [] k = 9 -> Micrometres(geom.L)
              [] k = 10 -> discretize(geom.L)
              [] k = 4 -> cow_n(1)
              [] OTHER -> r.f[k]])

\* r2 = r[:] with r2[5] .. r2[10] assigned
Overwrite(r, geom) ==
    Row(r.type,
        [k \in 1..Len(r.f) |->
            CASE k \in {5, 6} -> geom.d
              [] k \in {7, 8} -> geom.h
              [] k = 9 -> Micrometres(geom.L)
              [] k = 10 -> discretize(geom.L)
              [] OTHER -> r.f[k]])

\* a row the second loop of modify_arterial rewrites
IsCowRow(r) == r.type = "vis_f" /\ r.f[1] \in DOMAIN COW_VESSELS

\* a faulty variant: the file is opened for writing before the rows are
\* processed, and every row is written as soon as it is done
ModifyWhileWriting(file, segs) ==
    IF ~file.exists THEN [status |-> "FileNotFoundError", file |-> file]
    ELSE IF file.rows = <<>> THEN [status |-> "RuntimeError", file |-> file]
    ELSE LET header == Head(file.rows)
             body == Tail(file.rows)
             split == BasilarSplit(body, get_geom(segs, 1, <<"B","A">>).l)
             Bad(i) == \/ body[i].type = "vis_f" /\ body[i].f = <<>>
                       \/ IsCowRow(body[i]) /\ Len(body[i].f) < 10
             bad == {i \in 1..Len(body) : Bad(i)}
             done == IF bad = {} THEN Len(body)
                     ELSE (CHOOSE i \in bad : \A j \in bad : i <= j) - 1
         IN  [status |-> IF bad = {} THEN "ok"
                         ELSE IF \E i \in bad : body[i].f = <<>> THEN "IndexError"
                         ELSE "RuntimeError",
              file |-> File(<<header>> \o
                         [i \in 1..done |->
                            IF IsCowRow(body[i])
                            THEN Overwrite(body[i], CowGeometry(segs, body[i].f[1], split))
                            ELSE body[i]])]

\* modify_arterial on the cloned arterial.csv: the status it ends with and
\* the file it leaves
modify_arterial(file, segs) ==
    IF ~file.exists THEN [status |-> "FileNotFoundError", file |-> file]
    ELSE IF file.rows = <<>> THEN [status |-> "RuntimeError", file |-> file]
    ELSE LET header == Head(file.rows)
             body == Tail(file.rows)
             split == BasilarSplit(body, get_geom(segs, 1, <<"B","A">>).l)
         IN  IF \E i \in 1..Len(body) : body[i].type = "vis_f" /\ body[i].f = <<>>
             THEN [status |-> "IndexError", file |-> file]
             ELSE IF \E i \in 1..Len(body) : IsCowRow(body[i]) /\ Len(body[i].f) < 10
             THEN [status |-> "RuntimeError", file |-> file]
             ELSE [status |-> "ok",
                   file |-> File(<<header>> \o
                              [i \in 1..Len(body) |->
                                 IF IsCowRow(body[i])
                                 THEN Overwrite(body[i], CowGeometry(segs, body[i].f[1], split))
                                 ELSE body[i]])]

\* a faulty variant: the reference model is copied over what the output
\* directory holds
CloneOver(b, d) ==
    [arterial |-> b.arterial, main |-> b.main,
     circuits |-> [n \in DOMAIN b.circuits \cup DOMAIN d.circuits |->
                     IF n \in DOMAIN b.circuits THEN b.circuits[n] ELSE d.circuits[n]]]

\* clone_model: rmtree of the output directory, copytree of the reference
clone_model(b, d) == [arterial |-> b.arterial, main |-> b.main, circuits |-> b.circuits]

\* the files copytree writes
ClonedFiles(b) ==
    (IF b.arterial.exists THEN <<ARTERIAL_CSV>> ELSE <<>>)
    \o (IF b.main.exists THEN <<MAIN_CSV>> ELSE <<>>)
    \o Sorted(DOMAIN b.circuits)

\* one run of V23_generate.py: the patient files are loaded first, then the
\* reference model is cloned, then arterial.csv is rewritten
V23Generate(b, d, segs, loaded) ==
    IF ~loaded THEN RunResult(d, "FileNotFoundError", <<>>, <<>>, <<>>, <<>>, NoneNode, <<>>)
    ELSE IF ~b.exists THEN RunResult(d, "RuntimeError", <<>>, <<>>, <<>>, <<>>, NoneNode, <<>>)
    ELSE LET clone == clone_model(b, d)
             m == modify_arterial(clone.arterial, segs)
         IN  RunResult([clone EXCEPT !.arterial = m.file], m.status,
                       ClonedFiles(b) \o (IF m.status = "ok" THEN <<ARTERIAL_CSV>> ELSE <<>>),
                       <<>>, <<>>, <<>>, NoneNode, <<>>)

-----------------------------------------------------------------------------
(* Specification of repeated V23 runs *)

\* a vis_f row of the reference model
RefVessel(id, name, start, end, d1, d2, h1, h2, l, n) ==
    Row("vis_f", <<id, name, start, end, d1, d2, h1, h2, l, n,
                   "8.88E+05", "0", "0", "2.75", "2.e6", "-2253.", "8.65e4">>)

\* rows of the reference arterial.csv: a carotid, the two basilar rows, the
\* right P1, and the node table
RefCarotid == RefVessel(<<"A","5">>, "Common carotid", BodyNode(6), BodyNode(32), 13500, 7000, 13500, 7000, 94000, 19)
RefA56(l) == RefVessel(<<"A","5","6">>, "Basilar artery 2", BodyNode(31), BodyNode(50), 4000, 3600, 4000, 3600, l, 5)
RefA59(l) == RefVessel(<<"A","5","9">>, "Basilar artery 1", BodyNode(50), BodyNode(49), 3100, 2700, 3100, 2700, l, 5)
RefA60 == RefVessel(<<"A","6","0">>, "Post. cerebral 1", BodyNode(49), BodyNode(48), 2100, 2100, 2900, 2900, 5000, 5)
RefNodes ==
    <<BlankRow, meta_header, Row("heart", <<HEART_H, "0", "">>),
      Row("node", <<BodyNode(31), "0", "4.27E+10", "">>), PerifRow(Pid(1))>>

\* the reference arterial.csv: as shipped; with basilar rows of length zero;
\* without the second basilar row; with a Circle-of-Willis row cut short;
\* with a vis_f line that has no further cell; with a row cut short after
\* two complete basilar rows; empty
V23Arterials ==
    { File(<<arterial_header, RefCarotid, RefA56(20000), RefA59(5000), RefA60>> \o RefNodes),
      File(<<arterial_header, RefA56(0), RefCarotid, RefA59(0)>> \o RefNodes),
      File(<<arterial_header, RefA56(20000), BlankRow, RefCarotid, RefA60>> \o RefNodes),
      File(<<arterial_header, RefCarotid, Row("vis_f", <<<<"A","6","0">>, "Post. cerebral 1", BodyNode(49), BodyNode(48)>>)>> \o RefNodes),
      File(<<arterial_header, RefA60, Row("vis_f", <<>>)>>),
      File(<<arterial_header, RefA56(20000), RefA59(5000), Row("vis_f", <<<<"A","6","0">>, "Post. cerebral 1", BodyNode(49), BodyNode(48)>>)>> \o RefNodes),
      File(<<>>),
      NoFile }

RefMain == generate_main(<<>>)

RefCircuits == (HEART :> <<Row("heart model", <<>>)>>) @@ (Pid(1) :> wk_content(N1))

V23Bases ==
    {NoBase} \cup
    { [exists |-> TRUE, arterial |-> a, main |-> RefMain, circuits |-> RefCircuits] :
        a \in V23Arterials }

\* what the output directory holds before the first run: nothing, or the
\* files of another model
V23OutDirs ==
    { EmptyDir,
      [arterial |-> File(<<arterial_header>>), main |-> File(main_prologue),
       circuits |-> (Pid(9) :> wk_content(N1))] }

\* the patient's feature file: no record, a basilar artery, or a basilar
\* artery and two right P1 records
V23Features ==
    { <<>>,
      <<Seg(<<"1">>, <<"B","A">>, 51, 59)>>,
      <<Seg(<<"1">>, <<"B","A">>, 52, 60), Seg(<<"2">>, <<"P","1">>, 59, 61), Seg(<<"2">>, <<"P","1">>, 61, 62)>> }

InitV23 ==
    /\ gen = "V23"
    /\ base \in V23Bases
    /\ dir \in V23OutDirs
    /\ feat = <<>>
    /\ lmk = NoLandmarks
    /\ refHeart = FALSE
    /\ run = NoRun
    /\ runs = 0
    /\ variant = NoVariant
    /\ prevDir = EmptyDir
    /\ report = NoReport

\* python V23_generate.py
RunV23 ==
    /\ gen = "V23"
    /\ runs < MaxRuns
    /\ \E segs \in V23Features, loaded \in BOOLEAN :
          LET r == V23Generate(base, dir, segs, loaded)
          IN  /\ feat' = segs
              /\ dir' = r.dir
              /\ prevDir' = dir
              /\ run' = [r EXCEPT !.dir = EmptyDir]
              /\ runs' = runs + 1
    /\ UNCHANGED <<gen, lmk, refHeart, variant, report, base>>

SpecV23 == InitV23 /\ [][RunV23]_vars

\* the last run got as far as clone_model
Cloned == gen = "V23" /\ runs >= 1 /\ base.exists /\ run.written # <<>>

\* a vis_f row of a Circle-of-Willis vessel, below the header
CowVesselRow(rows, i) ==
    i > 1 /\ rows[i].type = "vis_f" /\ Len(rows[i].f) >= 1
          /\ rows[i].f[1] \in DOMAIN COW_VESSELS

\* the cells of a vessel row outside the geometry cells 5 .. 10
OutsideGeometry(r) == {k \in 1..Len(r.f) : k \notin 5..10}

\* C12: arterial.csv after a V23 run has the rows of the reference file in
\* the same order; the header, every row that is no vis_f row and every vis_f
\* row of a vessel outside COW_VESSELS are the same, and a Circle-of-Willis
\* row differs at most in its cells 5 to 10.
C12_OnlyCowGeometryChanges ==
    Cloned =>
        /\ Len(dir.arterial.rows) = Len(base.arterial.rows)
        /\ \A i \in 1..Len(base.arterial.rows) :
              IF CowVesselRow(base.arterial.rows, i)
              THEN /\ dir.arterial.rows[i].type = "vis_f"
                   /\ Len(dir.arterial.rows[i].f) = Len(base.arterial.rows[i].f)
                   /\ \A k \in OutsideGeometry(base.arterial.rows[i]) :
                         dir.arterial.rows[i].f[k] = base.arterial.rows[i].f[k]
              ELSE dir.arterial.rows[i] = base.arterial.rows[i]

\* a run has rewritten the geometry of a Circle-of-Willis row of a file that
\* also has a blank line, a node table and a row of another vessel
C12_Witness ==
    /\ Cloned /\ run.status = "ok"
    /\ \E i \in 1..Len(base.arterial.rows) :
          /\ CowVesselRow(base.arterial.rows, i)
          /\ dir.arterial.rows[i].f[9] # base.arterial.rows[i].f[9]
          /\ dir.arterial.rows[i].f[5] # base.arterial.rows[i].f[5]
    /\ \E i \in 2..Len(base.arterial.rows) :
          base.arterial.rows[i].type = "vis_f" /\ ~CowVesselRow(base.arterial.rows, i)
    /\ BlankRow \in Range(base.arterial.rows)

\* a run that cloned leaves the files of the reference model, all but
\* arterial.csv with the reference content, and leaves the reference alone
ClonedStep ==
    /\ base' = base
    /\ Cloned' =>
          /\ dir'.arterial.exists = base.arterial.exists
          /\ dir'.main = base.main
          /\ dir'.circuits = base.circuits

\* C13: whatever the output directory held, after a V23 run it holds exactly
\* the files of the reference model, main.csv, the heart model and every
\* Windkessel file equal to the reference's, and the reference model
\* directory is as it was.
C13_CloneIsExact == [][(gen = "V23") => ClonedStep]_vars

\* a run has replaced an output directory that held the files of another
\* model
C13_Witness ==
    /\ Cloned
    /\ Pid(9) \in DOMAIN prevDir.circuits
    /\ DOMAIN dir.circuits = {HEART, Pid(1)}

\* the second run of two has cloned again
C13_WitnessSecondRun == Cloned /\ runs = 2 /\ run.status = "ok"

-----------------------------------------------------------------------------
(* The Windkessel formulas.  A value is a natural number of SI units (of    *)
(* 1e-18 m^3/Pa for a compliance), rounded down, kept as its digits in base *)
(* 10000, most significant first, because the values do not fit a machine   *)
(* integer.  The radius and the length of an outlet are the quotients       *)
(* rsum / n and lsum / n of micrometres; pi is taken as 355/113.            *)

Limb == 10000

\* the number n
RECURSIVE BigOf(_)
BigOf(n) == IF n = 0 THEN <<>> ELSE BigOf(n \div Limb) \o <<n % Limb>>

\* b * m + carry, for a factor m of at most 200000
RECURSIVE BigMulCarry(_, _, _)
BigMulCarry(b, m, carry) ==
    IF b = <<>> THEN BigOf(carry)
    ELSE LET x == b[Len(b)] * m + carry
         IN  BigMulCarry(SubSeq(b, 1, Len(b) - 1), m, x \div Limb) \o <<x % Limb>>

BigMul(b, m) == IF m = 0 THEN <<>> ELSE BigMulCarry(b, m, 0)

RECURSIVE BigNorm(_)
BigNorm(b) == IF b # <<>> /\ Head(b) = 0 THEN BigNorm(Tail(b)) ELSE b

\* the digits of b / d below the remainder rem carried in, for a divisor d of
\* at most 200000
RECURSIVE BigDivRem(_, _, _)
BigDivRem(b, d, rem) ==
    IF b = <<>> THEN <<>>
    ELSE LET x == rem * Limb + Head(b)
         IN  <<x \div d>> \o BigDivRem(Tail(b), d, x % d)

\* b / d, rounded down
BigDiv(b, d) == BigNorm(BigDivRem(b, d, 0))

\* a < b
BigLess(a, b) ==
    \/ Len(a) < Len(b)
    \/ /\ Len(a) = Len(b)
       /\ \E k \in 1..Len(a) : a[k] < b[k] /\ \A j \in 1..(k - 1) : a[j] = b[j]

\* max(a, b)
BigMax(a, b) == IF BigLess(a, b) THEN b ELSE a

\* the minimums: MIN_R = 1e6, MIN_C = 1e-12 (in units of 1e-18), MIN_L = 1e5
MIN_R == 1000000
MIN_C == 1000000
MIN_L == 100000

\* 8.0 * MU = 0.028, times the 1e18 that L / r**4 carries in micrometres
EightMu == BigMul(BigMul(BigMul(BigOf(28000), Limb), Limb), Limb)

\* compute_R_total(r, L): max(8 MU L / (pi r^4), MIN_R)
compute_R_total(g) ==
    LET num == BigMul(BigMul(BigMul(BigMul(BigMul(EightMu, g.lsum), g.n), g.n), g.n), 113)
        raw == BigDiv(BigDiv(BigDiv(BigDiv(BigDiv(num, 355), g.rsum), g.rsum), g.rsum), g.rsum)
    IN  BigMax(raw, BigOf(MIN_R))

\* compute_C(r): MIN_C when h = H_FRAC * r is not positive, otherwise
\* max(pi r^3 / (2 E h), MIN_C), which is pi r^2 / 800000
compute_C(g) ==
    IF g.rsum <= 0 THEN BigOf(MIN_C)
    ELSE LET num == BigMul(BigMul(BigMul(BigOf(5), g.rsum), g.rsum), 355)
             raw == BigDiv(BigDiv(BigDiv(BigDiv(num, 4), 113), g.n), g.n)
         IN  BigMax(raw, BigOf(MIN_C))

\* compute_L(r, L): MIN_L when A = pi r^2 is not positive, otherwise
\* max(RHO L / A, MIN_L)
compute_L(g) ==
    IF g.rsum <= 0 THEN BigOf(MIN_L)
    ELSE LET num == BigMul(BigMul(BigMul(BigMul(BigMul(BigOf(1060), 100000), 10), g.lsum), g.n), 113)
             raw == BigDiv(BigDiv(BigDiv(num, 355), g.rsum), g.rsum)
         IN  BigMax(raw, BigOf(MIN_L))

\* a faulty variant: the proximal resistance is not clamped
RproxUnclamped(Rtot) == BigDiv(BigMul(Rtot, 3), 10)

\* Rprox = max(RPROX_FRAC * Rtot, MIN_R)
Rprox(Rtot) == BigMax(BigDiv(BigMul(Rtot, 3), 10), BigOf(MIN_R))

\* Rdist = max((1.0 - RPROX_FRAC) * Rtot, MIN_R)
Rdist(Rtot) == BigMax(BigDiv(BigMul(Rtot, 7), 10), BigOf(MIN_R))

\* Lin = compute_L(r, Lm) * 0.25
Lin(g) == BigDiv(compute_L(g), 4)

\* the two leading digit groups of b as one number, and the number of
\* groups left out
Leading(b) ==
    IF Len(b) >= 2 THEN [v |-> b[1] * Limb + b[2], dropped |-> Len(b) - 2]
    ELSE IF Len(b) = 1 THEN [v |-> b[1], dropped |-> 0]
    ELSE [v |-> 0, dropped |-> 0]

\* v cut down to five digits, e counting the digits cut
RECURSIVE FiveDigits(_, _)
FiveDigits(v, e) == IF v >= 100000 THEN FiveDigits(v \div 10, e + 1) ELSE [v |-> v, e |-> e]

\* v raised to four digits, e counting the digits added
RECURSIVE FourDigits(_, _)
FourDigits(v, e) == IF v < 1000 THEN FourDigits(v * 10, e - 1) ELSE [v |-> v, e |-> e]

\* f"{x:.3e}": four significant digits mant and the power of ten exp of the
\* last of them, so that the text stands for mant * 10^exp
Sci(b) ==
    IF b = <<>> THEN [mant |-> 0, exp |-> 0]
    ELSE LET lead == Leading(b)
             five == FiveDigits(lead.v, 4 * lead.dropped)
         IN  IF five.v >= 10000
             THEN LET m == (five.v + 5) \div 10
                  IN  IF m = 10000 THEN [mant |-> 1000, exp |-> five.e + 2]
                      ELSE [mant |-> m, exp |-> five.e + 1]
             ELSE LET four == FourDigits(five.v, five.e)
                  IN  [mant |-> four.v, exp |-> four.e]

\* a < b for two numbers of four significant digits
SciLess(a, b) == a.exp < b.exp \/ (a.exp = b.exp /\ a.mant < b.mant)

\* the number a parameter cell of a Windkessel file shows
WkValue(param) ==
    LET g == [rsum |-> param[2], lsum |-> param[3], n |-> param[4]]
    IN  CASE param[1] = "Rprox" -> Sci(Rprox(compute_R_total(g)))
          [] param[1] = "Rdist" -> Sci(Rdist(compute_R_total(g)))
          [] param[1] = "C" -> Sci(compute_C(g))
          [] param[1] = "L" -> Sci(Lin(g))

-----------------------------------------------------------------------------
(* Specification of one generator run on degenerate geometry *)

\* a segment record with a radius and a length of its own
SegGeom(group, name, start, end, radius, length) ==
    [group |-> group, name |-> name, start |-> start, end |-> end,
     radius |-> radius, length |-> length]

\* no radius, a thin vessel, a wide one; no length, a long vessel
WkRadii == {0, 300, 2000}
WkLengths == {0, 30000}

\* carotid segments in a row, one of them from a node to itself
WkSegments ==
    { SegGeom(<<"4">>, <<"I","C","A">>, se[1], se[2], r, l) :
        se \in {<<2, 10>>, <<10, 15>>, <<10, 10>>}, r \in WkRadii, l \in WkLengths }

WkFeatureLists == SeqsUpTo(WkSegments, MaxVessels)

WkGenerators == {"V6", "V8", "V11"}

InitWk ==
    /\ InitGen
    /\ gen \in WkGenerators

\* one run of the script on a feature file with such segments
RunDegenerate ==
    /\ gen \in WkGenerators
    /\ runs = 0
    /\ \E segs \in WkFeatureLists :
          Finish(CASE gen = "V6" -> V6Generate(dir, segs, FALSE)
                   [] gen = "V8" -> V8Generate(dir, segs, FALSE)
                   [] gen = "V11" -> V11Generate(dir, segs, FALSE),
                 segs, NoLandmarks, FALSE)

SpecWk == InitWk /\ [][RunDegenerate]_vars

\* the geometry the p-file loop computes for a node
FedGeometry(node) == avg_geo(ReadArteryRows(dir.arterial), node)

\* the parameter cells of one kind of element in the Windkessel files the
\* last run wrote
ParameterCells(type) ==
    UNION { { r.f[5] : r \in {x \in Range(dir.circuits[Pid(i)]) : x.type = type} } :
              i \in 1..Len(run.outlet_nodes) }

AtLeast(param, min) == ~SciLess(WkValue(param), Sci(BigOf(min)))

\* the vessel records of the input that touch node n
Incident(n) ==
    { i \in 1..Len(feat) : NodeName(feat[i].start) = n \/ NodeName(feat[i].end) = n }

C14_WitnessAtMinimum ==
    /\ gen \in WkGenerators /\ run.status = "ok"
    /\ \E p \in ParameterCells("resistor") : WkValue(p) = Sci(BigOf(MIN_R))
    /\ \E p \in ParameterCells("capacitor") : WkValue(p) = Sci(BigOf(MIN_C))

\* C15: the inertance written for inductor L1 of every Windkessel file is at
\* least MIN_L.
C15_InertanceAtLeastMinimum ==
    (gen \in WkGenerators /\ run.status = "ok") =>
        \A p \in ParameterCells("inductor") : AtLeast(p, MIN_L)

\* what does hold of the inertance written: it is at least a quarter of MIN_L
C15_InertanceAtLeastQuarter ==
    (gen \in WkGenerators /\ run.status = "ok") =>
        \A p \in ParameterCells("inductor") :
            ~SciLess(WkValue(p), Sci(BigDiv(BigOf(MIN_L), 4)))

\* C16: every vis_f row written by V11 or V12 has a positive diameter, wall
\* thickness, length and number of division points, and two different end
\* nodes.
C16_VesselRowsWellFormed ==
    (gen \in {"V11", "V12"} /\ run.status = "ok") =>
        \A i \in 1..Len(VesselRows) :
            /\ VesselRows[i].f[5] > 0 /\ VesselRows[i].f[6] > 0
            /\ VesselRows[i].f[7] > 0 /\ VesselRows[i].f[8] > 0
            /\ VesselRows[i].f[9] > 0 /\ VesselRows[i].f[10] > 0
            /\ VesselRows[i].f[3] # VesselRows[i].f[4]

\* the part of C16 that holds: the number of division points is positive
C16_DivisionPointsPositive ==
    (gen \in {"V11", "V12"} /\ run.status = "ok") =>
        \A i \in 1..Len(VesselRows) : VesselRows[i].f[10] > 0

-----------------------------------------------------------------------------
(* get_geom on the values json.load can return *)

\* JSON values: null, a number (kept in thousandths), a list, an object whose
\* keys are strings
JNull == [t |-> "null"]
JNum(v) == [t |-> "num", v |-> v]
JList(items) == [t |-> "list", items |-> items]
JDict(d) == [t |-> "dict", d |-> d]
NoKeys == [k \in {} |-> JNull]

\* an exception of class cls on its way up
Raise(cls) == [t |-> "exc", cls |-> cls]
IsExc(v) == v.t = "exc"

\* v.get(k): None for a missing key; only objects have .get
JGet(v, k) ==
    IF IsExc(v) THEN v
    ELSE IF v.t # "dict" THEN Raise("AttributeError")
    ELSE IF k \in DOMAIN v.d THEN v.d[k] ELSE JNull

\* v[k] for a string k
Subscript(v, k) ==
    IF IsExc(v) THEN v
    ELSE IF v.t # "dict" THEN Raise("TypeError")
    ELSE IF k \in DOMAIN v.d THEN v.d[k] ELSE Raise("KeyError")

\* seg[0]
FirstItem(v) == IF v.items = <<>> THEN Raise("IndexError") ELSE v.items[1]

\* not v
Falsy(v) ==
    \/ v.t = "null"
    \/ v.t = "dict" /\ DOMAIN v.d = {}
    \/ v.t = "list" /\ v.items = <<>>
    \/ v.t = "num" /\ v.v = 0

\* faulty variant: the value is returned in the unit it is stored in
NotDivided(v) ==
    IF IsExc(v) THEN v
    ELSE IF v.t # "num" THEN Raise("TypeError")
    ELSE JNum(v.v * 1000)

\* v / 1000.0: a number of thousandths becomes as many millionths
Div1000(v) ==
    IF IsExc(v) THEN v
    ELSE IF v.t # "num" THEN Raise("TypeError")
    ELSE JNum((v.v * 1000) \div 1000)

Returned(g) == [t |-> "return", r |-> g.r, l |-> g.l]

\* the statements under try: of get_geom
GeomBody(feat_data, label_id, segment_name) ==
    LET block == JGet(feat_data, Digits(label_id))
    IN  IF IsExc(block) THEN block
        ELSE IF Falsy(block) THEN Returned(DefaultGeom)
        ELSE LET seg == JGet(block, segment_name)
                 data == IF IsExc(seg) THEN seg
                         ELSE IF seg.t = "list" THEN FirstItem(seg) ELSE seg
                 r_mm == Subscript(Subscript(data, <<"r","a","d","i","u","s">>), <<"m","e","d","i","a","n">>)
                 L_mm == IF IsExc(r_mm) THEN r_mm ELSE Subscript(data, <<"l","e","n","g","t","h">>)
                 r_m == IF IsExc(L_mm) THEN L_mm ELSE Div1000(r_mm)
                 l_m == IF IsExc(r_m) THEN r_m ELSE Div1000(L_mm)
             IN  IF IsExc(l_m) THEN l_m
                 ELSE Returned([r |-> r_m.v, l |-> l_m.v])

\* the classes an "except Exception" clause catches, of those raised above
ExceptionClasses == {"AttributeError", "TypeError", "KeyError", "IndexError"}

\* faulty variant: only the missing key is caught
GeomCatchKeyError(feat_data, label_id, segment_name) ==
    LET b == GeomBody(feat_data, label_id, segment_name)
    IN  IF IsExc(b) /\ b.cls = "KeyError" THEN Returned(DefaultGeom) ELSE b

\* get_geom(label_id, segment_name) with its except clause
get_geom_json(feat_data, label_id, segment_name) ==
    LET b == GeomBody(feat_data, label_id, segment_name)
    IN  IF IsExc(b) /\ b.cls \in ExceptionClasses THEN Returned(DefaultGeom) ELSE b

\* the feature file that json.load turns into the flattened list segs
RecordOf(s) ==
    JDict((<<"s","e","g","m","e","n","t">> :> JDict((<<"s","t","a","r","t">> :> JNum(1000 * s.start)) @@ (<<"e","n","d">> :> JNum(1000 * s.end))))
          @@ (<<"r","a","d","i","u","s">> :> JDict((<<"m","e","a","n">> :> JNum(s.radius)) @@ (<<"m","e","d","i","a","n">> :> JNum(s.radius))))
          @@ (<<"l","e","n","g","t","h">> :> JNum(s.length)))

ToJson(segs) ==
    JDict([g \in {s.group : s \in Range(segs)} |->
        JDict([n \in {s.name : s \in {x \in Range(segs) : x.group = g}} |->
            JList([i \in 1..Len(SelectSeq(segs, LAMBDA x : x.group = g /\ x.name = n)) |->
                      RecordOf(SelectSeq(segs, LAMBDA x : x.group = g /\ x.name = n)[i])])])])

-----------------------------------------------------------------------------
(* Specification of get_geom applied to a feature file *)

\* radius {"median": m} and length l, either of them possibly absent (-1),
\* the median possibly null (-2), the radius possibly a plain number (-3)
GeomRecord(m, l) ==
    JDict((IF m = -1 THEN NoKeys
           ELSE IF m = -3 THEN (<<"r","a","d","i","u","s">> :> JNum(2000))
           ELSE IF m = -4 THEN (<<"r","a","d","i","u","s">> :> JDict((<<"m","e","a","n">> :> JNum(2000))))
           ELSE (<<"r","a","d","i","u","s">> :> JDict((<<"m","e","a","n">> :> JNum(2000))
                                      @@ (<<"m","e","d","i","a","n">> :> IF m = -2 THEN JNull ELSE JNum(m)))))
          @@ (IF l = -1 THEN NoKeys ELSE (<<"l","e","n","g","t","h">> :> JNum(l))))

GeomRecords ==
    { GeomRecord(m, l) : m \in {-4, -3, -2, -1, 1200, 1800}, l \in {-1, 7000} }
    \cup {JNull}

\* what a segment name can stand for: a list of records, a single record
GeomSegValues ==
    { JList(items) : items \in SeqsUpTo(GeomRecords, 2) } \cup GeomRecords

\* what a label can stand for: segments under the name BA, no segments, null,
\* a list
GeomBlocks ==
    { JDict(<<"B","A">> :> v) : v \in GeomSegValues }
    \cup { JDict(NoKeys), JNull, JList(<<JNum(1000)>>) }

\* feature files: an object with the label "1", an empty object, a list, and
\* the files of the V20 patients
GeomFeatureFiles ==
    { JDict(<<"1">> :> b) : b \in GeomBlocks }
    \cup { JDict(NoKeys), JList(<<>>) }
    \cup { ToJson(p.feat) : p \in V20Patients }

InitGeom ==
    /\ gen = "get_geom"
    /\ feat \in GeomFeatureFiles
    /\ lmk = NoLandmarks
    /\ refHeart = FALSE
    /\ dir = EmptyDir
    /\ run = NoRun
    /\ runs = 0
    /\ variant = NoVariant
    /\ prevDir = EmptyDir
    /\ report = NoReport
    /\ base = NoBase

\* r, L = get_geom(label, segname)
GetGeom ==
    /\ gen = "get_geom"
    /\ runs = 0
    /\ \E label \in {1, 2}, segname \in {<<"B","A">>, <<"P","1">>} :
          run' = [status |-> "called", label |-> label, segname |-> segname,
                  result |-> get_geom_json(feat, label, segname)]
    /\ runs' = 1
    /\ UNCHANGED <<gen, feat, lmk, refHeart, dir, variant, prevDir, report, base>>

SpecGeom == InitGeom /\ [][GetGeom]_vars

Called == gen = "get_geom" /\ runs = 1

\* the feature file is an object and has the label of the call
HasLabel == feat.t = "dict" /\ Digits(run.label) \in DOMAIN feat.d
LabelBlock == feat.d[Digits(run.label)]

\* ... whose value is an object with the segment name of the call
HasSegment ==
    /\ HasLabel
    /\ LabelBlock.t = "dict"
    /\ run.segname \in DOMAIN LabelBlock.d
SegmentValue == LabelBlock.d[run.segname]

EmptySegmentList == HasSegment /\ SegmentValue = JList(<<>>)

\* ... which is a record or a list that starts with one
HasRecord ==
    /\ HasSegment
    /\ \/ SegmentValue.t = "dict"
       \/ SegmentValue.t = "list" /\ SegmentValue.items # <<>> /\ SegmentValue.items[1].t = "dict"
TheRecord == IF SegmentValue.t = "list" THEN SegmentValue.items[1] ELSE SegmentValue

HasMedian ==
    /\ <<"r","a","d","i","u","s">> \in DOMAIN TheRecord.d
    /\ TheRecord.d[<<"r","a","d","i","u","s">>].t = "dict"
    /\ <<"m","e","d","i","a","n">> \in DOMAIN TheRecord.d[<<"r","a","d","i","u","s">>].d
HasLength == <<"l","e","n","g","t","h">> \in DOMAIN TheRecord.d

WellFormed ==
    /\ HasRecord /\ HasMedian /\ HasLength
    /\ TheRecord.d[<<"r","a","d","i","u","s">>].d[<<"m","e","d","i","a","n">>].t = "num"
    /\ TheRecord.d[<<"l","e","n","g","t","h">>].t = "num"

\* C17: get_geom never raises; it returns the default (0.0015 m, 0.01 m) for
\* a missing label, a missing segment name, an empty segment list and a
\* record without radius.median or without length; for a well-formed record
\* it returns (median radius / 1000, length / 1000) of the record, the first
\* one of a list.
C17_GetGeomTotal ==
    Called =>
        /\ run.result.t = "return"
        /\ (feat.t = "dict" /\ ~HasLabel) => run.result = Returned(DefaultGeom)
        /\ (HasLabel /\ LabelBlock.t = "dict" /\ ~HasSegment) => run.result = Returned(DefaultGeom)
        /\ EmptySegmentList => run.result = Returned(DefaultGeom)
        /\ (HasRecord /\ (~HasMedian \/ ~HasLength)) => run.result = Returned(DefaultGeom)
        /\ WellFormed =>
              run.result = Returned([r |-> TheRecord.d[<<"r","a","d","i","u","s">>].d[<<"m","e","d","i","a","n">>].v,
                                     l |-> TheRecord.d[<<"l","e","n","g","t","h">>].v])
        /\ \A p \in V20Patients :
              feat = ToJson(p.feat) =>
                  run.result = Returned(get_geom(p.feat, run.label, run.segname))

\* a list of two well-formed records with different medians: the first one's
\* geometry was returned
C17_Witness ==
    /\ Called /\ WellFormed
    /\ SegmentValue.t = "list" /\ Len(SegmentValue.items) = 2
    /\ SegmentValue.items[2] = GeomRecord(1800, 7000)
    /\ run.result = Returned([r |-> 1200, l |-> 7000])

\* the default came back for an empty list, for a first record that is null
\* and for a record without length
C17_WitnessEmptyList == Called /\ EmptySegmentList /\ run.result = Returned(DefaultGeom)
C17_WitnessNullRecord ==
    /\ Called /\ HasSegment /\ SegmentValue = JList(<<JNull>>)
    /\ run.result = Returned(DefaultGeom)
C17_WitnessNoLength ==
    /\ Called /\ HasRecord /\ HasMedian /\ ~HasLength
    /\ run.result = Returned(DefaultGeom)

-----------------------------------------------------------------------------
(* Properties of a V20 run: optional branches and the emitted graph *)

\* the ID of the vessel row each variant flag stands for
BranchId ==
    [k \in Range(VariantFlags) |->
        CASE k = "R-P1" -> <<"P","_","R","P","1">> [] k = "L-P1" -> <<"P","_","L","P","1">>
          [] k = "R-Pcom" -> <<"P","_","R","P","c","o","m">> [] k = "L-Pcom" -> <<"P","_","L","P","c","o","m">>
          [] k = "R-A1" -> <<"P","_","R","A","1">> [] k = "L-A1" -> <<"P","_","L","A","1">>
          [] k = "Acom" -> <<"P","_","A","c","o","m">>]

\* the vessel rows of arterial.csv with the ID of branch k
BranchRows(k) == {i \in 1..Len(VesselRows) : VesselRows[i].f[1] = BranchId[k]}

FlagSet(k) == k \in DOMAIN variant /\ variant[k]

\* C18: a V20 run goes through whether or not the variant file has every
\* flag; a branch whose flag is false or absent has no vessel row, a branch
\* whose flag is true has exactly one.
C18_OptionalBranchesSkipped ==
    (gen = "V20" /\ runs >= 1) =>
        /\ run.status = "ok"
        /\ \A k \in Range(VariantFlags) :
              Cardinality(BranchRows(k)) = IF FlagSet(k) THEN 1 ELSE 0

\* the part of C18 that holds: when the run goes through, the rows follow
\* the flags
C18_RowsFollowFlags ==
    (gen = "V20" /\ runs >= 1 /\ run.status = "ok") =>
        \A k \in Range(VariantFlags) :
            Cardinality(BranchRows(k)) = IF FlagSet(k) THEN 1 ELSE 0

\* the rows of the patient's vessels: their IDs start with P_
PatientRows ==
    {i \in 1..Len(VesselRows) : SubSeq(VesselRows[i].f[1], 1, 2) = <<"P", "_">>}

\* the nodes joined to the heart node H by vessels
JoinedToHeart == Reach(EmittedGraph, {HEART_H})

\* node n is closed by a boundary circuit: a perif row, a lumped row of
\* main.csv and a circuit file
Terminated(n) ==
    /\ n \in Range(PerifIds)
    /\ \E i \in 1..Len(WkRows) : WkRows[i].f[1] = n /\ WkRows[i].f[2] = n
    /\ n \in DOMAIN dir.circuits

\* C20: in the graph a V20 run emits, every patient vessel is joined to the
\* heart node H, every node of degree 1 other than H is an outlet closed by
\* a boundary circuit, and no junction cow_n1..cow_n5 is a dead end or cut
\* off from H.
C20_CircleJoinedAndTerminated ==
    (gen = "V20" /\ runs >= 1 /\ run.status = "ok") =>
        /\ \A i \in PatientRows :
              VesselRows[i].f[3] \in JoinedToHeart /\ VesselRows[i].f[4] \in JoinedToHeart
        /\ \A n \in VesselNodes :
              (EndpointCount(n) = 1 /\ n # HEART_H) => Terminated(n)
        /\ \A j \in junction_nodes : EndpointCount(j) >= 2 /\ j \in JoinedToHeart

\* the part of C20 that holds: with every optional branch present the
\* circle is joined to H and every dead end is terminated
C20_CompleteCircleJoined ==
    (gen = "V20" /\ runs >= 1 /\ run.status = "ok" /\ variant = AllOpen) =>
        /\ \A i \in PatientRows :
              VesselRows[i].f[3] \in JoinedToHeart /\ VesselRows[i].f[4] \in JoinedToHeart
        /\ \A n \in VesselNodes :
              (EndpointCount(n) = 1 /\ n # HEART_H) => Terminated(n)
        /\ \A j \in junction_nodes : EndpointCount(j) >= 2 /\ j \in JoinedToHeart

-----------------------------------------------------------------------------
(* Properties of a V8 run: the nodes main.csv couples models at *)

\* the main nodes of the (main node, model node) pairs of the moc row
MocMainNodes ==
    UNION { { r.f[2 * k] : k \in 1..(Len(r.f) \div 2) } :
              r \in Range(RowsOfType(dir.main, "moc")) }

\* the global nodes of the lumped rows: of the heart row and of the outlet rows
LumpedMainNodes == { r.f[2] : r \in Range(RowsOfType(dir.main, "lumped")) }

\* the node list at the end of main.csv
MainNodeList == { r.f[1] : r \in Range(RowsOfType(dir.main, "node")) }

\* C19: in a model V8 emits, every global node of the moc pairs, of the
\* heart row and of the outlet rows of main.csv is an endpoint of a vessel
\* and stands in the node list of main.csv.
C19_CoupledNodesExist ==
    (gen = "V8" /\ Completed) =>
        \A n \in MocMainNodes \cup LumpedMainNodes :
            n \in VesselNodes /\ n \in MainNodeList

\* the part of C19 that holds: the nodes of the outlet rows and of their moc
\* pairs are vessel endpoints in the node list
C19_OutletNodesExist ==
    (gen = "V8" /\ Completed) =>
        \A n \in (MocMainNodes \cup LumpedMainNodes) \ {PREFERRED_INLET} :
            n \in VesselNodes /\ n \in MainNodeList

-----------------------------------------------------------------------------
(* Properties of a generator run: vessel identifiers *)

\* C21: the vessel rows of an arterial.csv that a generator run has written
\* carry pairwise different identifiers; an input that gives two vessels the
\* same identifier is never emitted.
C21_VesselIdsDistinct ==
    (gen \in Generators /\ Completed) =>
        \A i, j \in 1..Len(VesselRows) :
            VesselRows[i].f[1] = VesselRows[j].f[1] => i = j

\* the part of C21 that holds: the identifier of a row is <name>_<group> of
\* its record, so rows of different names or groups differ
C21_IdsFollowNameAndGroup ==
    (gen = "V11" /\ Completed) =>
        \A i, j \in 1..Len(VesselRows) :
            VesselRows[i].f[1] = VesselRows[j].f[1]
                => VesselRows[i].f[2] = VesselRows[j].f[2]

-----------------------------------------------------------------------------
(* Properties of a V23 run that stops in modify_arterial *)

\* the last run cloned the reference model and modify_arterial raised
AbortedInModify == Cloned /\ run.status # "ok"

\* a Circle-of-Willis row of full length stands before a row cut short
RowCutShortAfterCowRow ==
    /\ Len(base.arterial.rows) >= 4
    /\ CowVesselRow(base.arterial.rows, 2) /\ Len(base.arterial.rows[2].f) >= 10
    /\ \E i \in 3..Len(base.arterial.rows) :
          CowVesselRow(base.arterial.rows, i) /\ Len(base.arterial.rows[i].f) < 10

\* C22: when modify_arterial raises (empty arterial.csv, a Circle-of-Willis
\* row of fewer than 11 cells), the arterial.csv of the output directory is
\* the file that clone_model copied from the reference model: no row of it
\* has been rewritten.
C22_AbortLeavesClone ==
    AbortedInModify =>
        /\ dir.arterial = base.arterial
        /\ dir.main = base.main
        /\ dir.circuits = base.circuits
        /\ ARTERIAL_CSV \notin Range(SubSeq(run.written, Len(ClonedFiles(base)) + 1, Len(run.written)))

\* modify_arterial raised RuntimeError at a row cut short, after two rows it
\* would have rewritten
C22_Witness ==
    /\ AbortedInModify /\ run.status = "RuntimeError"
    /\ RowCutShortAfterCowRow
    /\ dir.arterial = base.arterial

\* modify_arterial raised RuntimeError on an empty arterial.csv
C22_WitnessEmpty ==
    /\ AbortedInModify /\ run.status = "RuntimeError"
    /\ base.arterial.exists /\ base.arterial.rows = <<>>
    /\ dir.arterial = base.arterial

-----------------------------------------------------------------------------
(* V22_diagnostic.py: the Windkessel section of the report *)

\* read_main_nodes_and_lumped: the names of the lumped rows of four cells or
\* more; a node row without a second cell raises IndexError
lumped_models(main) ==
    { r.f[1] : r \in {x \in Range(main.rows) : x.type = "lumped" /\ Len(x.f) >= 3} }

NodeRowRaises(main) == \E r \in Range(main.rows) : r.type = "node" /\ r.f = <<>>

\* fname.startswith(prefix) for a csv file of the folder
NameStartsWith(name, prefix) ==
    Len(name) + 4 >= Len(prefix)
    /\ SubSeq(name \o <<".","c","s","v">>, 1, Len(prefix)) = prefix

\* list_windkessels(folder): the csv files whose name starts with p
list_windkessels(d) == {n \in DOMAIN d.circuits : NameStartsWith(n, <<"p">>)}

\* faulty variant: the out_ files are not added
WkWithoutOutFiles(d) == list_windkessels(d)

\* v22_wk: list_windkessels and the out_*.csv files
v22_wk(d) ==
    list_windkessels(d) \cup {n \in DOMAIN d.circuits : NameStartsWith(n, <<"o","u","t","_">>)}

\* main(): both models are read, then the report is printed; section 6 has
\* the files no lumped row names and the lumped names without a file
V22_diagnostic(b, d) ==
    IF ~b.exists \/ ~b.arterial.exists \/ ~b.main.exists
       \/ ~d.arterial.exists \/ ~d.main.exists
    THEN [outcome |-> "raised", exception |-> "FileNotFoundError", entries |-> {},
          missing_wk |-> <<>>, missing_lumped |-> <<>>]
    ELSE IF NodeRowRaises(b.main) \/ NodeRowRaises(d.main)
    THEN [outcome |-> "raised", exception |-> "IndexError", entries |-> {},
          missing_wk |-> <<>>, missing_lumped |-> <<>>]
    ELSE [outcome |-> "printed", exception |-> "", entries |-> {},
          missing_wk |-> Sorted(v22_wk(d) \ lumped_models(d.main)),
          missing_lumped |-> Sorted(lumped_models(d.main) \ v22_wk(d))]

-----------------------------------------------------------------------------
(* Specification of one run of V22_diagnostic.py *)

\* lumped rows of main.csv: the heart, a body outlet, a patient outlet, and
\* a row of three cells
DiagLumpedRows ==
    { LumpedRow(HEART, HEART_NODE, AORTA), LumpedRow(Pid(1), Pid(1), N1),
      LumpedRow(V20Outlets[1], V20Outlets[1], N1),
      Row("lumped", <<Pid(2), Pid(2)>>) }

DiagMainFiles ==
    { File(main_prologue \o lumped \o <<BlankRow, NodeRow(HEART_NODE)>>) :
        lumped \in SeqsUpTo(DiagLumpedRows, 2) }
    \cup { File(main_prologue \o <<Row("node", <<>>)>>), NoFile }

\* the circuit files of the folder
DiagFileNames == {HEART, Pid(1), Pid(2), V20Outlets[1]}

DiagDirs ==
    { [arterial |-> File(<<arterial_header>>), main |-> m,
       circuits |-> [n \in names |-> wk_content(N1)]] :
        m \in DiagMainFiles, names \in SUBSET DiagFileNames }

DiagBases ==
    { NoBase,
      [exists |-> TRUE, arterial |-> File(<<arterial_header>>), main |-> RefMain,
       circuits |-> RefCircuits] }

InitDiag ==
    /\ gen = "V22_diagnostic"
    /\ base \in DiagBases
    /\ dir \in DiagDirs
    /\ feat = <<>>
    /\ lmk = NoLandmarks
    /\ refHeart = FALSE
    /\ run = NoRun
    /\ runs = 0
    /\ variant = NoVariant
    /\ prevDir = EmptyDir
    /\ report = NoReport

\* python3 V22_diagnostic.py
RunDiagnostic ==
    /\ gen = "V22_diagnostic"
    /\ runs = 0
    /\ report' = V22_diagnostic(base, dir)
    /\ runs' = 1
    /\ UNCHANGED <<gen, feat, lmk, refHeart, dir, run, variant, prevDir, base>>

SpecDiag == InitDiag /\ [][RunDiagnostic]_vars

DiagPrinted == gen = "V22_diagnostic" /\ runs = 1 /\ report.outcome = "printed"

\* the models that the lumped rows of main.csv name
LumpedEntries == { r.f[1] : r \in {x \in Range(dir.main.rows) : x.type = "lumped"} }

\* C23: V22_diagnostic lists a lumped entry of main.csv as having no csv
\* file exactly when the folder has no file <entry>.csv, and lists a circuit
\* file as not referenced exactly when no lumped row names it.
C23_CrossReferenceExact ==
    DiagPrinted =>
        /\ \A e \in LumpedEntries :
              e \in Range(report.missing_lumped) <=> e \notin DOMAIN dir.circuits
        /\ \A c \in DOMAIN dir.circuits :
              c \in Range(report.missing_wk) <=> c \notin LumpedEntries

\* a file name that starts with p or with out_
WindkesselName(n) ==
    n # <<>> /\ (Head(n) = "p" \/ (Len(n) >= 4 /\ SubSeq(n, 1, 4) = <<"o","u","t","_">>))

\* the part of C23 that holds: the two lists are exact for the p and out_
\* names and the lumped rows of four cells or more
C23_ExactForWindkesselNames ==
    DiagPrinted =>
        /\ \A e \in { r.f[1] : r \in {x \in Range(dir.main.rows) : x.type = "lumped" /\ Len(x.f) >= 3} } :
              e \in Range(report.missing_lumped)
                  <=> ~(e \in DOMAIN dir.circuits /\ WindkesselName(e))
        /\ \A c \in {n \in DOMAIN dir.circuits : WindkesselName(n)} :
              c \in Range(report.missing_wk)
                  <=> ~(\E r \in Range(dir.main.rows) : r.type = "lumped" /\ Len(r.f) >= 3 /\ r.f[1] = c)

\* a folder with heart_kim_lit.csv and a lumped row for it: the heart is
\* listed as having no file
C23_HeartListed ==
    /\ DiagPrinted
    /\ HEART \in DOMAIN dir.circuits /\ HEART \in LumpedEntries
    /\ HEART \in Range(report.missing_lumped)

-----------------------------------------------------------------------------
(* Specification of the vessel row each generator writes for one record *)

MaxRadiusStep == 120

\* a right P1 record with a radius of 25 .. 3000 micrometres
ThicknessRecords ==
    { SegGeom(<<"2">>, <<"P","1">>, 59, 60, 25 * k, 6000) : k \in 1..MaxRadiusStep }

InitThickness ==
    /\ gen = "thickness"
    /\ feat \in { <<s>> : s \in ThicknessRecords }
    /\ lmk = NoLandmarks
    /\ refHeart = FALSE
    /\ dir = EmptyDir
    /\ run = NoRun
    /\ runs = 0
    /\ variant = NoVariant
    /\ prevDir = EmptyDir
    /\ report = NoReport
    /\ base = NoBase

\* the row of the record as V11's feature loop builds it, as V20's
\* generate_arterial formats it (P_RP1) and as V23's modify_arterial
\* overwrites the reference row A60
WriteRows ==
    /\ gen = "thickness"
    /\ runs = 0
    /\ run' = [status |-> "written",
               v11 |-> ArteryRow(ArteryOf(feat[1])),
               v20 |-> fmt_artery(<<"P","_","R","P","1">>, "Pat_R_P1", cow_n(1), cow_n(2),
                                  get_geom(feat, 2, <<"P","1">>), 0),
               v23 |-> Overwrite(RefA60,
                                 CowGeometry(feat, <<"A","6","0">>,
                                             BasilarSplit(<<RefA60>>, get_geom(feat, 1, <<"B","A">>).l)))]
    /\ runs' = 1
    /\ UNCHANGED <<gen, feat, lmk, refHeart, dir, variant, prevDir, report, base>>

SpecThickness == InitThickness /\ [][WriteRows]_vars

RowsWritten == gen = "thickness" /\ runs = 1

\* a thickness (tenths of a micrometre) printed with six decimals
WholeMicrometres(h) == 10 * ((h + 5) \div 10)

\* C24: for one input radius every generator writes the diameter 2 x radius
\* and the wall thickness 0.10 x radius: the thickness in the rows of V20
\* and V23 is the one V11's wall_thickness gives.
C24_SameThicknessRule ==
    RowsWritten =>
        /\ run.v11.f[5] = 2 * feat[1].radius
        /\ run.v20.f[5] = 2 * feat[1].radius
        /\ run.v23.f[5] = 2 * feat[1].radius
        /\ run.v11.f[7] = wall_thickness(feat[1].radius)
        /\ run.v20.f[7] = WholeMicrometres(wall_thickness(feat[1].radius))
        /\ run.v23.f[7] = WholeMicrometres(wall_thickness(feat[1].radius))

\* the part of C24 that holds: the three diameters are 2 x radius; V11
\* writes 0.10 x radius, V20 and V23 write 0.10 x diameter
C24_DiameterAndOwnRules ==
    RowsWritten =>
        /\ run.v11.f[5] = 2 * feat[1].radius
        /\ run.v20.f[5] = 2 * feat[1].radius
        /\ run.v23.f[5] = 2 * feat[1].radius
        /\ run.v11.f[7] = wall_thickness(feat[1].radius)
        /\ run.v20.f[7] = WholeMicrometres(2 * wall_thickness(feat[1].radius))
        /\ run.v23.f[7] = run.v20.f[7]

-----------------------------------------------------------------------------
(* V3_generate_p_files.py: the circuit files written from main.csv *)

\* parse_lumped_from_main: pid -> (main node, model node) from the first
\* lumped line of four cells or more that names the pid, in file order
RECURSIVE ParseLumped(_, _)
ParseLumped(rows, models) ==
    IF rows = <<>> THEN models
    ELSE LET r == Head(rows)
             parts == [i \in 1..Len(r.f) |-> Strip(r.f[i])]
         IN  IF r.type = "lumped" /\ Len(r.f) >= 3
                /\ ~(\E i \in 1..Len(models) : models[i].pid = parts[1])
             THEN ParseLumped(Tail(rows),
                     Append(models, [pid |-> parts[1], main_node |-> parts[2],
                                     model_node |-> parts[3]]))
             ELSE ParseLumped(Tail(rows), models)

\* faulty variant: a later lumped line of the same pid replaces the earlier one
ParseKeepLast(main) ==
    LET Last(rows, pid) ==
            CHOOSE i \in 1..Len(rows) :
                /\ rows[i].type = "lumped" /\ Len(rows[i].f) >= 3 /\ rows[i].f[1] = pid
                /\ \A j \in (i + 1)..Len(rows) :
                      ~(rows[j].type = "lumped" /\ Len(rows[j].f) >= 3 /\ rows[j].f[1] = pid)
        first == ParseLumped(main.rows, <<>>)
    IN  [i \in 1..Len(first) |->
            [pid |-> first[i].pid,
             main_node |-> main.rows[Last(main.rows, first[i].pid)].f[2],
             model_node |-> main.rows[Last(main.rows, first[i].pid)].f[3]]]

parse_lumped_from_main(main) == ParseLumped(main.rows, <<>>)

\* faulty variant: only the identifier is searched for the hints
CoronaryByIdOnly(pid, inlet_model_node) ==
    Contains(<<"c","o","r">>, Lower(pid)) \/ Contains(<<"h","e","a","r","t">>, Lower(pid))

is_coronary(pid, inlet_model_node) ==
    LET s == Lower(pid \o <<"_">> \o inlet_model_node)
    IN  Contains(<<"c","o","r">>, s) \/ Contains(<<"c","o","r","o","n","a","r","y">>, s) \/ Contains(<<"h","e","a","r","t">>, s)

\* the rows of a systemic circuit file: R0, R2, C1, L1 around the node P1
write_systemic_p(inlet_node, g) == WkFileRows(inlet_node, g)

\* the rows of a coronary circuit file: R1, R2, C around the node n2
write_coronary_p(inlet_node, g) ==
    << Row("data of edges", <<>>),
       Row("type", <<"name", "node start", "node end", "initial condition [SI]", "parameter [SI]">>),
       Row("resistor_coronary", <<<<"R","1">>, inlet_node, <<"n","2">>, "0.0", WkParam("Rprox", g)>>),
       Row("resistor_coronary", <<<<"R","2">>, <<"n","2">>, GROUND, "0.0", WkParam("Rdist", g)>>),
       Row("capacitor_coronary", <<<<"C">>, <<"n","2">>, GROUND, "0.0", WkParam("C", g)>>),
       BlankRow,
       Row("data of nodes", <<>>),
       Row("type", <<"name", "initial condition [SI]">>),
       Row("node", <<inlet_node, "100000.0">>),
       Row("node", <<<<"n","2">>, "100000.0">>),
       Row("ground", <<GROUND, "100000.0">>) >>

\* the loop of main(): the circuit files after the first k models are written,
\* each scaled by the geometry at its main node
RECURSIVE WriteModels(_, _, _, _)
WriteModels(circuits, rows, models, k) ==
    IF k = 0 THEN circuits
    ELSE LET m == models[k]
             g == avg_geo(rows, m.main_node)
         IN  DictPut(WriteModels(circuits, rows, models, k - 1), m.pid,
                     IF is_coronary(m.pid, m.model_node)
                     THEN write_coronary_p(m.model_node, g)
                     ELSE write_systemic_p(m.model_node, g))

\* main(): both files must exist; one file per parsed model.  The arterial
\* files of the runs below hold the header and vessel rows only.
V3Generate(d) ==
    IF ~d.arterial.exists \/ ~d.main.exists
    THEN [dir |-> d, status |-> "FileNotFoundError", written |-> <<>>]
    ELSE LET models == parse_lumped_from_main(d.main)
         IN  [dir |-> [d EXCEPT !.circuits =
                          WriteModels(d.circuits, ReadArteryRows(d.arterial),
                                      models, Len(models))],
              status |-> "ok",
              written |-> [i \in 1..Len(models) |-> models[i].pid]]

-----------------------------------------------------------------------------
(* Specification of one run of V3_generate_p_files.py *)

\* lumped rows of main.csv: a Windkessel, the same one with the main node as
\* model node, the heart, a model named as coronary, a model whose node is
\* named so, and a row of three cells
V3LumpedRows ==
    { LumpedRow(Pid(1), NodeName(10), N1),
      LumpedRow(Pid(1), NodeName(15), NodeName(15)),
      LumpedRow(HEART, HEART_NODE, AORTA),
      LumpedRow(<<"C","o","r","1">>, NodeName(2), N1),
      LumpedRow(Pid(2), NodeName(2), <<"n","_","C","O","R">>),
      Row("lumped", <<Pid(2), NodeName(10)>>) }

V3MainFiles ==
    { File(main_prologue \o lumped \o <<BlankRow, NodeRow(HEART_NODE)>>) :
        lumped \in SeqsUpTo(V3LumpedRows, 3) }
    \cup { NoFile }

V3ArterialFiles ==
    { File(<<arterial_header,
             ArteryRow(ArteryOf(SegGeom(<<"4">>, <<"I","C","A">>, 2, 10, 2000, 30000)))>>),
      NoFile }

\* the folder before the run: no circuit file, or an older p1.csv
V3Circuits == { <<>>, [n \in {Pid(1)} |-> wk_content(N1)] }

V3Dirs ==
    { [arterial |-> a, main |-> m, circuits |-> c] :
        a \in V3ArterialFiles, m \in V3MainFiles, c \in V3Circuits }

InitV3 ==
    /\ gen = "V3_generate_p_files"
    /\ dir \in V3Dirs
    /\ feat = <<>>
    /\ lmk = NoLandmarks
    /\ refHeart = FALSE
    /\ run = NoRun
    /\ runs = 0
    /\ variant = NoVariant
    /\ prevDir = EmptyDir
    /\ report = NoReport
    /\ base = NoBase

\* python3 V3_generate_p_files.py
RunV3 ==
    /\ gen = "V3_generate_p_files"
    /\ runs = 0
    /\ LET r == V3Generate(dir)
       IN  /\ dir' = r.dir
           /\ run' = [status |-> r.status, written |-> r.written]
    /\ prevDir' = dir
    /\ runs' = 1
    /\ UNCHANGED <<gen, feat, lmk, refHeart, variant, report, base>>

SpecV3 == InitV3 /\ [][RunV3]_vars

V3Done == gen = "V3_generate_p_files" /\ runs = 1 /\ run.status = "ok"

\* the elements of a circuit file, and the nodes it declares in order
Elements(rows) ==
    { <<r.type, r.f[1]>> :
        r \in {x \in Range(rows) : x.type \in {"resistor", "capacitor", "inductor",
                                              "resistor_coronary", "capacitor_coronary"}} }

DeclaredNodes(rows) ==
    LET ns == SelectSeq(rows, LAMBDA x : x.type = "node")
    IN  [i \in 1..Len(ns) |-> ns[i].f[1]]

CoronaryShape(rows, iface) ==
    /\ Elements(rows) = { <<"resistor_coronary", <<"R","1">>>>, <<"resistor_coronary", <<"R","2">>>>,
                          <<"capacitor_coronary", <<"C">>>> }
    /\ DeclaredNodes(rows) = <<iface, <<"n","2">>>>

SystemicShape(rows, iface) ==
    /\ Elements(rows) = { <<"resistor", <<"R","0">>>>, <<"resistor", <<"R","2">>>>,
                          <<"capacitor", <<"C","1">>>>, <<"inductor", <<"L","1">>>> }
    /\ DeclaredNodes(rows) = <<iface, <<"P","1">>>>

\* "cor" or "heart" in the lower-cased identifier or model node
HintsCoronary(pid, node) ==
    \E w \in {<<"c","o","r">>, <<"h","e","a","r","t">>}, s \in {pid, node} : Contains(w, Lower(s))

\* the lumped rows of main.csv with at least min cells after the type, in order
LumpedOf(min) ==
    SelectSeq(dir.main.rows, LAMBDA x : x.type = "lumped" /\ Len(x.f) >= min)

\* what the run must have left for the models that the rows name
FilesFor(rows) ==
    LET ids == { rows[i].f[1] : i \in 1..Len(rows) }
        FirstOf(pid) == rows[CHOOSE i \in 1..Len(rows) :
                                /\ rows[i].f[1] = pid
                                /\ \A j \in 1..(i - 1) : rows[j].f[1] # pid]
    IN  /\ \A pid \in ids :
              /\ pid \in DOMAIN dir.circuits
              /\ Len(FirstOf(pid).f) >= 3
              /\ IF HintsCoronary(pid, FirstOf(pid).f[3])
                 THEN CoronaryShape(dir.circuits[pid], FirstOf(pid).f[3])
                 ELSE SystemicShape(dir.circuits[pid], FirstOf(pid).f[3])
        /\ Range(run.written) = ids
        /\ Len(run.written) = Cardinality(ids)
        /\ DOMAIN dir.circuits = DOMAIN prevDir.circuits \cup ids
        /\ \A n \in DOMAIN prevDir.circuits \ ids : dir.circuits[n] = prevDir.circuits[n]

\* C25: V3_generate_p_files writes one file per distinct model of the lumped
\* rows of main.csv, in the coronary shape (R1, R2, C, node n2, no inductor)
\* exactly for the models that hint at a coronary, in the systemic shape
\* (R0, R2, C1, L1, node P1) for the others, and the interface node of the
\* file is the model node of the model's first lumped row.
C25_OneFilePerLumpedModel == V3Done => FilesFor(LumpedOf(1))

\* C25 for the lumped rows of four cells or more, the only ones read: one
\* file per distinct model of these rows, shaped by the hint, its interface
\* node the model node of the model's first such row; no other file changes.
C25_OneFilePerParsedModel == V3Done => FilesFor(LumpedOf(3))

\* a run that wrote a coronary and a systemic file, the latter for a model
\* that two rows name with different model nodes
C25_Witness ==
    /\ V3Done
    /\ \E i \in 1..Len(LumpedOf(3)), j \in 1..Len(LumpedOf(3)) :
          /\ i < j
          /\ LumpedOf(3)[i].f[1] = LumpedOf(3)[j].f[1]
          /\ LumpedOf(3)[i].f[3] # LumpedOf(3)[j].f[3]
          /\ SystemicShape(dir.circuits[LumpedOf(3)[i].f[1]], LumpedOf(3)[i].f[3])
    /\ \E pid \in DOMAIN dir.circuits : CoronaryShape(dir.circuits[pid], N1)

\* a run that wrote the coronary shape because of the model node's name alone
C25_WitnessNodeHint ==
    /\ V3Done
    /\ Pid(2) \in DOMAIN dir.circuits
    /\ CoronaryShape(dir.circuits[Pid(2)], <<"n","_","C","O","R">>)

-----------------------------------------------------------------------------
(* detect_inlet_node and the basilar artery *)

\* a basilar vessel: named BA, or with "basilar" in its name
Basilar(i) ==
    Lower(feat[i].name) = <<"b","a">> \/ Contains(<<"b","a","s","i","l","a","r">>, Lower(feat[i].name))

C26_BasilarOnlyByFallback ==
    (run.status = "detected" /\ CommonCarotid \cup InternalCarotid \cup Vertebral # {}) =>
        \E i \in CommonCarotid \cup InternalCarotid \cup Vertebral :
            run.inlet = StartOf(i) /\ ~Basilar(i)

\* a list of basilar vessels only: the start node of the widest is returned
C26_BasilarChosen ==
    /\ run.status = "detected"
    /\ feat # <<>>
    /\ \A i \in 1..Len(feat) : Basilar(i)
    /\ run.inlet # NoneNode

-----------------------------------------------------------------------------
(* main_fixed_generationV2.py: main_fixed.csv from main.csv *)

\* faulty variant: a model node that is there is kept
FixedKeepsModelNode(lines) ==
    [i \in 1..Len(lines) |->
        IF lines[i].type = "lumped"
        THEN Row("lumped", <<lines[i].f[1], lines[i].f[2],
                             IF Len(lines[i].f) >= 3 THEN lines[i].f[3] ELSE lines[i].f[2]>>)
        ELSE lines[i]]

\* the loop over the rows: column 4 of a lumped row becomes column 2
fixed_lines(lines) ==
    [i \in 1..Len(lines) |->
        IF lines[i].type = "lumped"
        THEN Row("lumped", <<lines[i].f[1], lines[i].f[2], lines[i].f[2]>>)
        ELSE lines[i]]

\* row[2] of a lumped row of fewer than three cells
FixedRaises(lines) ==
    \E i \in 1..Len(lines) : lines[i].type = "lumped" /\ Len(lines[i].f) < 2

\* the script: exit(1) without main.csv; main_fixed.csv is opened for
\* writing after the loop
main_fixed_generationV2(d) ==
    IF ~d.main.exists THEN [dir |-> d, status |-> "exit 1"]
    ELSE IF FixedRaises(d.main.rows) THEN [dir |-> d, status |-> "IndexError"]
    ELSE [dir |-> [d EXCEPT !.main_fixed = File(fixed_lines(d.main.rows))],
          status |-> "ok"]

-----------------------------------------------------------------------------
(* Specification of one run of main_fixed_generationV2.py *)

\* lumped rows: as generated, already fixed, the heart, with a fifth cell,
\* of three cells, of two cells
FixLumpedRows ==
    { LumpedRow(Pid(1), NodeName(10), N1),
      LumpedRow(Pid(1), NodeName(10), NodeName(10)),
      LumpedRow(HEART, HEART_NODE, AORTA),
      Row("lumped", <<Pid(2), NodeName(2), N1, N1>>),
      Row("lumped", <<Pid(2), NodeName(2)>>),
      Row("lumped", <<Pid(2)>>) }

\* the other rows that stand between them
FixOtherRows == { BlankRow, NodeRow(NodeName(10)), MocRow(<<<<NodeName(10), Pid(1)>>>>) }

FixMainFiles ==
    { File(main_prologue \o rows) : rows \in SeqsUpTo(FixLumpedRows \cup FixOtherRows, 3) }
    \cup { NoFile }

\* the folder before the run: no main_fixed.csv, or an older one
FixDirs ==
    { [arterial |-> NoFile, main |-> m, circuits |-> <<>>, main_fixed |-> x] :
        m \in FixMainFiles, x \in {NoFile, File(<<NodeRow(NodeName(2))>>)} }

InitFix ==
    /\ gen = "main_fixed_generationV2"
    /\ dir \in FixDirs
    /\ feat = <<>>
    /\ lmk = NoLandmarks
    /\ refHeart = FALSE
    /\ run = NoRun
    /\ runs = 0
    /\ variant = NoVariant
    /\ prevDir = EmptyDir
    /\ report = NoReport
    /\ base = NoBase

\* python3 main_fixed_generationV2.py
RunFix ==
    /\ gen = "main_fixed_generationV2"
    /\ runs = 0
    /\ LET r == main_fixed_generationV2(dir)
       IN  /\ dir' = r.dir
           /\ run' = [status |-> r.status]
    /\ prevDir' = dir
    /\ runs' = 1
    /\ UNCHANGED <<gen, feat, lmk, refHeart, variant, report, base>>

SpecFix == InitFix /\ [][RunFix]_vars

FixRan == gen = "main_fixed_generationV2" /\ runs = 1

\* main_fixed.csv holds main.csv row for row: a lumped row as [lumped, model,
\* main node, main node], any other row as it is; main.csv is as before; the
\* rewrite of these rows changes nothing
Rewritten ==
    /\ dir.main = prevDir.main
    /\ dir.main_fixed.exists
    /\ Len(dir.main_fixed.rows) = Len(dir.main.rows)
    /\ \A i \in 1..Len(dir.main.rows) :
          IF dir.main.rows[i].type = "lumped"
          THEN /\ Len(dir.main.rows[i].f) >= 2
               /\ dir.main_fixed.rows[i].type = "lumped"
               /\ dir.main_fixed.rows[i].f =
                     <<dir.main.rows[i].f[1], dir.main.rows[i].f[2], dir.main.rows[i].f[2]>>
          ELSE dir.main_fixed.rows[i] = dir.main.rows[i]
    /\ fixed_lines(dir.main_fixed.rows) = dir.main_fixed.rows

\* some lumped row of main.csv has fewer than three cells
FixShortRow ==
    \E r \in Range(prevDir.main.rows) : r.type = "lumped" /\ Len(r.f) < 2

\* C27: main_fixed_generationV2 rewrites every lumped row of main.csv to
\* [lumped, model, main node, main node], copies every other row unchanged
\* and in order to main_fixed.csv, leaves main.csv untouched, and the rewrite
\* of its output yields the same rows.
C27_EveryLumpedRowRewritten ==
    (FixRan /\ prevDir.main.exists) => Rewritten

\* C27 for a main.csv whose lumped rows have three cells or more: the rows
\* are rewritten and copied as stated; a lumped row of fewer cells ends the
\* run with IndexError and main_fixed.csv and main.csv stay as they were.
C27_RewrittenOrNothingWritten ==
    (FixRan /\ prevDir.main.exists) =>
        /\ ~FixShortRow => (run.status = "ok" /\ Rewritten)
        /\ FixShortRow => (run.status = "IndexError" /\ dir = prevDir)

\* a run that rewrote a generated row and a row that was fixed already, over
\* an older main_fixed.csv, with another row between them
C27_Witness ==
    /\ FixRan
    /\ run.status = "ok"
    /\ prevDir.main_fixed.exists
    /\ \E i, j, k \in 1..Len(dir.main.rows) :
          /\ i < k /\ k < j
          /\ dir.main.rows[i] = LumpedRow(Pid(1), NodeName(10), N1)
          /\ dir.main.rows[j] = LumpedRow(Pid(1), NodeName(10), NodeName(10))
          /\ dir.main.rows[k].type # "lumped"
          /\ dir.main_fixed.rows[i] = dir.main_fixed.rows[j]

\* a run on a lumped row of two cells
C27_WitnessShortRow == FixRan /\ prevDir.main.exists /\ FixShortRow

-----------------------------------------------------------------------------
(* main_generationV2.py and pX_generationV2.py: main.csv and the p-files   *)
(* of the segment loop                                                      *)
(*                                                                         *)
(* An entry of a vessel's list is [kind, start, end, radius, length]: a    *)
(* segment record, a record without the key 'segment', or a segment record *)
(* without the key 'radius'.                                               *)

V2Entry(kind, start, end) ==
    [kind |-> kind, start |-> start, end |-> end,
     radius |-> 1000 + 50 * end, length |-> 5000 + 100 * start]

\* the entries the loops do not skip: those with the key 'segment'
V2Segments(features) == SelectSeq(features, LAMBDA e : e.kind # "no segment")

\* faulty variant: p_index also counts the entries that are skipped
PxNumberOfEntry(features, k) ==
    CHOOSE i \in 1..Len(features) :
        /\ features[i].kind # "no segment"
        /\ Cardinality({j \in 1..i : features[j].kind # "no segment"}) = k

\* p_index of the k-th segment met: it is incremented once per segment
PxNumber(features, k) == k

\* main_generationV2: the rows of main.csv; the moc cells follow the header
\* cells on the type row
main_rows(features) ==
    LET segs == V2Segments(features)
        pairs == Flatten([k \in 1..Len(segs) |->
                    << <<NodeName(segs[k].start), Pid(k)>>, <<NodeName(segs[k].end), Pid(k)>> >>])
        lumped_lines == Flatten([k \in 1..Len(segs) |->
                    << LumpedRow(Pid(k), NodeName(segs[k].start), N1),
                       LumpedRow(Pid(k), NodeName(segs[k].end), N1) >>])
        node_ids == Sorted({NodeName(segs[k].start) : k \in 1..Len(segs)}
                           \cup {NodeName(segs[k].end) : k \in 1..Len(segs)})
    IN  << Row("run", <<"forward">>), Row("time", <<"10">>),
           Row("material", <<"linear">>), Row("solver", <<"maccormack">>),
           Row("type", <<"name", "main node", "model node">> \o Flatten(pairs)),
           MocRow(pairs) >>
        \o lumped_lines
        \o [i \in 1..Len(node_ids) |-> NodeRow(node_ids[i])]

main_generationV2(d, features) == [d EXCEPT !.main = File(main_rows(features))]

\* the node name as the first cell of a p-file row
FirstCell(id) == CASE id = 2 -> "N2" [] id = 10 -> "N10" [] id = 15 -> "N15"

\* the two rows of p<k>.csv; lengths in units of 0.001 cm, which the radii
\* and lengths of the entries meet without rounding
px_rows(e) ==
    << Row("id_start", <<<<"i","d","_","e","n","d">>, <<"l","e","n","g","t","h">>, <<"d","i","a","m","e","t","e","r">>, <<"w","a","l","l","_","t","h","i","c","k","n","e","s","s">>,
                         <<"E","1">>, <<"E","2">>, <<"e","t","a">>>>),
       Row(FirstCell(e.start), <<NodeName(e.end), e.length \div 10, (2 * e.radius) \div 10,
                                 ((2 * e.radius) \div 10) \div 10,
                                 <<"4","0","0","0","0","0","0",".","0">>, <<"8","0","0","0","0","0",".","0">>, <<"5","0","0","0",".","0">>>>) >>

\* pX_generationV2: the files after the first k segments, or the KeyError of
\* entry['radius'] with the files written before it
RECURSIVE PxLoop(_, _, _)
PxLoop(d, features, k) ==
    IF k = 0 THEN [dir |-> d, status |-> "ok"]
    ELSE LET prev == PxLoop(d, features, k - 1)
             e == V2Segments(features)[k]
         IN  IF prev.status # "ok" THEN prev
             ELSE IF e.kind = "no radius" THEN [prev EXCEPT !.status = "KeyError"]
             ELSE [prev EXCEPT !.dir.circuits =
                       DictPut(@, Pid(PxNumber(features, k)), px_rows(e))]

pX_generationV2(d, features) == PxLoop(d, features, Len(V2Segments(features)))

-----------------------------------------------------------------------------
(* Specification of the two generators and validate_model on one folder *)

V2Entries ==
    { V2Entry(kind, se[1], se[2]) :
        kind \in {"segment", "no segment", "no radius"},
        se \in {<<2, 10>>, <<10, 15>>, <<2, 15>>} }

V2FeatureLists == SeqsUpTo(V2Entries, MaxVessels)

\* the folder before the runs: empty, or with the p2.csv of an earlier patient
V2Dirs ==
    { [arterial |-> NoFile, main |-> NoFile, circuits |-> c] :
        c \in { <<>>, [n \in {Pid(2)} |-> px_rows(V2Entry("segment", 10, 2))] } }

InitV2 ==
    /\ gen = "V2"
    /\ feat \in V2FeatureLists
    /\ dir \in V2Dirs
    /\ lmk = NoLandmarks
    /\ refHeart = FALSE
    /\ run = [main |-> "none", px |-> "none", validated |-> <<>>]
    /\ runs = 0
    /\ variant = NoVariant
    /\ prevDir = EmptyDir
    /\ report = NoReport
    /\ base = NoBase

\* python3 main_generationV2.py
RunMainGeneration ==
    /\ gen = "V2"
    /\ run.main = "none"
    /\ dir' = main_generationV2(dir, feat)
    /\ run' = [run EXCEPT !.main = "ok"]
    /\ prevDir' = dir
    /\ UNCHANGED <<gen, feat, lmk, refHeart, runs, variant, report, base>>

\* python3 pX_generationV2.py
RunPxGeneration ==
    /\ gen = "V2"
    /\ run.px = "none"
    /\ dir' = pX_generationV2(dir, feat).dir
    /\ run' = [run EXCEPT !.px = pX_generationV2(dir, feat).status]
    /\ prevDir' = dir
    /\ UNCHANGED <<gen, feat, lmk, refHeart, runs, variant, report, base>>

\* python3 validate_model.py, on the folder as it is
RunValidateV2 ==
    /\ gen = "V2"
    /\ run.validated = <<>>
    /\ report' = validate_model(dir)
    /\ run' = [run EXCEPT !.validated = <<run.main, run.px>>]
    /\ UNCHANGED <<gen, feat, lmk, refHeart, dir, runs, variant, prevDir, base>>

NextV2 == RunMainGeneration \/ RunPxGeneration \/ RunValidateV2

SpecV2 == InitV2 /\ [][NextV2]_vars

\* validate_model ran after both generators had run
ValidatedAfterBoth ==
    gen = "V2" /\ run.validated # <<>> /\ run.validated[1] = "ok" /\ run.validated[2] # "none"

\* the lines of the p-file coverage check
CoverageEntries ==
    { e \in report.entries : e.kind \in {"pX node not in main.csv", "main.csv node not in pX"} }

\* the segment that main.csv pairs with p<k>: the main nodes of the two moc
\* pairs and of the two lumped rows that name p<k>
MainSegment(k) ==
    LET moc == SelectSeq(dir.main.rows, LAMBDA r : r.type = "moc")[1].f
        lumped == SelectSeq(dir.main.rows, LAMBDA r : r.type = "lumped" /\ r.f[1] = Pid(k))
    IN  [moc |-> << <<moc[4 * k - 2], moc[4 * k - 1]>>, <<moc[4 * k], moc[4 * k + 1]>> >>,
         lumped |-> [i \in 1..Len(lumped) |-> lumped[i].f[2]]]

\* p<k>.csv holds the start and the end node of that segment
SameSegment(k) ==
    LET row == dir.circuits[Pid(k)][2]
        start == TypeText[row.type]
        end == row.f[1]
    IN  /\ MainSegment(k).moc = << <<start, Pid(k)>>, <<end, Pid(k)>> >>
        /\ MainSegment(k).lumped = <<start, end>>

\* C28: main_generationV2 and pX_generationV2, run on the same feature data,
\* number the segments identically: p<k>.csv holds the start and end nodes
\* of the segment that main.csv pairs with p<k>, for every k, and
\* validate_model's p-file coverage check finds no pair missing in either
\* direction.
C28_SameNumberingAndCoverage ==
    ValidatedAfterBoth =>
        /\ \A k \in 1..Len(V2Segments(feat)) :
              Pid(k) \in DOMAIN dir.circuits /\ SameSegment(k)
        /\ report.outcome = "reported"
        /\ CoverageEntries = {}

\* the p-files no segment of the feature data stands for
StaleFiles == px_files(dir) \ { Pid(k) : k \in 1..Len(V2Segments(feat)) }

\* the part of C28 that holds: every file that pX_generationV2 wrote holds
\* the nodes of the segment main.csv pairs with it, and when the run wrote
\* all of them into a folder without other p-files the coverage check finds
\* nothing
C28_WrittenFilesAgree ==
    (gen = "V2" /\ run.main = "ok" /\ run.px # "none") =>
        /\ \A k \in 1..Len(V2Segments(feat)) :
              (\A j \in 1..k : V2Segments(feat)[j].kind # "no radius")
                  => (Pid(k) \in DOMAIN dir.circuits /\ SameSegment(k))
        /\ (ValidatedAfterBoth /\ run.px = "ok" /\ StaleFiles = {})
              => (report.outcome = "reported" /\ CoverageEntries = {})

\* an entry without segment before a segment: the segment's file is p1.csv,
\* and the validated folder has no coverage line
C28_NumberingSkipsEntries ==
    /\ ValidatedAfterBoth
    /\ run.px = "ok"
    /\ Len(feat) = 2
    /\ feat[1].kind = "no segment" /\ feat[2].kind = "segment"
    /\ Pid(1) \in DOMAIN dir.circuits /\ SameSegment(1)
    /\ StaleFiles = {}
    /\ CoverageEntries = {}


\* a folder that holds the complete output of both generators and nothing
\* else, validated as it is
ValidatedGenerated ==
    ValidatedAfterBoth /\ run.px = "ok" /\ StaleFiles = {} /\ V2Segments(feat) # <<>>

\* the lumped rows of main.csv as the generator writes them: the model node
\* is n1, the main node is declared
GeneratedLumpedRows ==
    \A r \in Range(dir.main.rows) :
        r.type = "lumped" =>
            /\ r.f[3] = N1
            /\ \E n \in Range(dir.main.rows) : n.type = "node" /\ n.f[1] = r.f[2]

\* C29: validate_model reports no [LUMPED] issue for the coupling rows that
\* main_generationV2 writes (model node n1, main node a declared node), and
\* reports the generated model as consistent.
C29_GeneratedModelConsistent ==
    ValidatedGenerated =>
        /\ report.outcome = "reported"
        /\ ~(\E e \in report.entries : e.kind \in {"LUMPED mismatch", "LUMPED not declared"})
        /\ report.lines = <<>>

\* what holds instead: the rows are as C29 describes them, every one of
\* them gets a mismatch line, and these are the only lines of the report
C29_OnlyMismatchLines ==
    ValidatedGenerated =>
        /\ GeneratedLumpedRows
        /\ report.outcome = "reported"
        /\ report.entries =
              { Entry("LUMPED mismatch", r.f) :
                  r \in {x \in Range(dir.main.rows) : x.type = "lumped"} }
        /\ Len(report.lines) = 2 * Len(V2Segments(feat))

\* a generated model of two segments, validated: four mismatch lines
C29_FourMismatchLines ==
    /\ ValidatedGenerated
    /\ Len(V2Segments(feat)) = 2
    /\ Len(report.lines) = 4

-----------------------------------------------------------------------------
(* Specification of two V11 runs on the same segments in two orders *)

\* b lists the records of a in some order
IsPermutation(a, b) ==
    /\ Len(a) = Len(b)
    /\ \E p \in [1..Len(a) -> 1..Len(a)] :
          /\ \A i, j \in 1..Len(a) : i # j => p[i] # p[j]
          /\ \A i \in 1..Len(a) : b[i] = a[p[i]]

\* python V11_generate.py on a patient's feature file
RunV11Listed ==
    /\ gen = "V11"
    /\ runs = 0
    /\ \E segs \in FeatureLists, ref \in BOOLEAN :
          Finish(V11Generate(dir, segs, ref), segs, NoLandmarks, ref)

\* python V11_generate.py once more, on the same records listed in another
\* (or the same) order; the outcome of the first run is kept beside it
RunV11Permuted ==
    /\ gen = "V11"
    /\ runs = 1
    /\ \E segs \in {s \in FeatureLists : IsPermutation(feat, s)} :
          LET r == V11Generate(dir, segs, refHeart)
          IN  /\ feat' = segs
              /\ dir' = r.dir
              /\ run' = [r EXCEPT !.dir = EmptyDir]
              /\ report' = run
    /\ runs' = 2
    /\ prevDir' = dir
    /\ UNCHANGED <<gen, lmk, refHeart, variant, base>>

SpecPermute == InitRerun /\ [][RunV11Listed \/ RunV11Permuted]_vars

BothOrdersRun == gen = "V11" /\ runs = 2

Kept == { i \in 1..Len(feat) : ~Contains(BIFURCATION, Lower(feat[i].name)) }

\* the vessels the inlet is taken from: those of the first keyword class
\* that has any, else the widest
InletCandidates ==
    IF CommonCarotid \cap Kept # {} THEN CommonCarotid \cap Kept
    ELSE IF InternalCarotid \cap Kept # {} THEN InternalCarotid \cap Kept
    ELSE IF Vertebral \cap Kept # {} THEN Vertebral \cap Kept
    ELSE { i \in Kept : \A j \in Kept : feat[j].radius <= feat[i].radius }

C30_InletFollowsOrder ==
    /\ BothOrdersRun
    /\ run.status = "ok" /\ report.status = "ok"
    /\ Len(feat) = 2 /\ feat[1] # feat[2]
    /\ <<run.inlet>> = report.outlet_nodes
    /\ <<report.inlet>> = run.outlet_nodes

====
